---- MODULE Spec2Model ----
(***************************************************************************)
(* Model of the XML signature engine of bankws: signature.py (sign,        *)
(* validate), certificate.py (check_revocation_status) and plugin.py       *)
(* (SignerPlugin, SignQueue).                                              *)
(*                                                                         *)
(* An XML tree is a sequence of nodes in document order; every node names  *)
(* its parent by index (0 for the root).  SHA-1 and RSA are modelled as    *)
(* collision free: a digest is the canonical form it was computed from, a  *)
(* signature value is the pair (private key, canonical form).              *)
(***************************************************************************)
EXTENDS Integers, Sequences, FiniteSets, TLC

\* ----------------------------------------------------------------- bounds
\* Number of clock ticks in 24 hours and the last tick of the clock.
DayTicks == 2
MaxTime == 3
\* Upper bound of the node indexes that tampering reaches.
MaxNodes == 40

\* SignQueue alone: identifiers handed out, the elements of a document that
\* are marked or given as SignedInfo (its first ones), and the size up to
\* which references are inserted.
MaxIds == 3
QueueElements == 3
QueueNodes == 22

\* Request headers generated.
MaxRequests == 3

\* ------------------------------------------------------------- text values
\* The text of an element or the content of a file.  k is the kind of
\* value: "none" (no text), "str" (characters s), "cert" (base64 of the DER
\* certificate n), "digest" (base64 of SHA-1 of canonical bytes c), "sig"
\* (base64 of the RSA-SHA1 signature by private key n over canonical bytes c).
NoCanon == [ns |-> {}, nodes |-> <<>>]

Text(k, s, n, c) == [k |-> k, s |-> s, n |-> n, c |-> c]

NoText == Text("none", <<>>, 0, NoCanon)

Str(s) == Text("str", s, 0, NoCanon)

CertText(n) == Text("cert", <<>>, n, NoCanon)

\* ------------------------------------------------------------------- nodes
\* id is the wsu:Id attribute (0: absent); uri is the URI attribute (-1:
\* absent, 0: URI="", n > 0: URI="#<n>"); alg is the Algorithm attribute
\* ("": absent).
Node(tag, parent, id, uri, alg, text) ==
    [tag |-> tag, parent |-> parent, id |-> id, uri |-> uri, alg |-> alg,
     text |-> text]

El(tag, parent) == Node(tag, parent, 0, -1, "", NoText)

ElText(tag, parent, text) == Node(tag, parent, 0, -1, "", text)

ElAlg(tag, parent, alg) == Node(tag, parent, 0, -1, alg, NoText)

Min(S) == CHOOSE x \in S : \A y \in S : x <= y

\* F of the value of v, and of the values of v and w: the values are
\* computed once, however often F uses them.
Bind(v, F(_)) == CHOOSE r \in {F(x) : x \in {v}} : TRUE

Bind2(v, w, F(_, _)) == CHOOSE r \in {F(x, y) : x \in {v}, y \in {w}} : TRUE

\* Last index of the subtree rooted at node i.
End(nodes, i) ==
    Min({j \in i..Len(nodes) : j = Len(nodes) \/ nodes[j + 1].parent < i})

\* The subtree rooted at i as a tree of its own.
Subtree(tree, at) ==
    Bind2(tree, at, LAMBDA nodes, i :
      [k \in 1..(End(nodes, i) - i + 1) |->
          LET n == nodes[i + k - 1]
          IN  [n EXCEPT !.parent = IF k = 1 THEN 0 ELSE n.parent - i + 1]])

\* parent.remove(child): the tree without the subtree rooted at i.
Remove(tree, at) ==
    Bind2(tree, at, LAMBDA nodes, i :
      Bind(End(nodes, i), LAMBDA e :
        LET len == e - i + 1
        IN  [k \in 1..(Len(nodes) - len) |->
                IF k < i THEN nodes[k]
                ELSE LET n == nodes[k + len]
                     IN  [n EXCEPT !.parent = IF n.parent > e
                                              THEN n.parent - len
                                              ELSE n.parent]]))

\* parent.append(child) / etree.SubElement(parent, ...): the tree `child`
\* becomes the last child of node `parent`.
AppendChild(tree, parent, child) ==
    Bind2(tree, child, LAMBDA nodes, sub :
      Bind2(parent, End(nodes, parent), LAMBDA p, pos :
        LET m == Len(sub)
        IN  [k \in 1..(Len(nodes) + m) |->
                IF k <= pos THEN nodes[k]
                ELSE IF k <= pos + m
                THEN LET n == sub[k - pos]
                     IN  [n EXCEPT !.parent = IF n.parent = 0 THEN p
                                              ELSE n.parent + pos]
                ELSE LET n == nodes[k - m]
                     IN  [n EXCEPT !.parent = IF n.parent > pos
                                              THEN n.parent + m
                                              ELSE n.parent]]))

\* element.iter(): the element and its descendants, in document order.
Iter(nodes, i) == i..End(nodes, i)

\* tree.xpath("//tag"): every element of that name, in document order.
XPathAll(nodes, tag) == {i \in 1..Len(nodes) : nodes[i].tag = tag}

\* XPath('tag') evaluated on element p: the children of p of that name.
XPathChildren(nodes, p, tag) ==
    {i \in 1..Len(nodes) : nodes[i].tag = tag /\ nodes[i].parent = p}

\* -------------------------------------------------------------- documents
\* A byte string handed to the parser: ok is FALSE for bytes that are not
\* well-formed XML.  ns is the set of namespace prefixes declared on the
\* root element (tree.nsmap).
Doc(ns, nodes) == [ok |-> TRUE, ns |-> ns, nodes |-> nodes]

Malformed == [ok |-> FALSE, ns |-> {}, nodes |-> <<>>]

\* etree.tostring(element): the element with the namespace declarations of
\* its ancestors copied onto it.
tostring(doc, i) ==
    Bind(doc, LAMBDA d : Doc(d.ns, Subtree(d.nodes, i)))

\* ------------------------------------------------- canonicalization, SHA-1
RECURSIVE StripComments(_)
\* The tree without its comment nodes.
StripComments(tree) ==
    Bind(tree, LAMBDA nodes :
      Bind({i \in 1..Len(nodes) : nodes[i].tag = "#comment"}, LAMBDA cs :
        IF cs = {} THEN nodes ELSE StripComments(Remove(nodes, Min(cs)))))

\* Canonical XML of a serialized element.  Inclusive canonicalization
\* renders every namespace declaration in scope; the exclusive one renders
\* only those the nodes themselves use, which the nodes determine.
canonicalizate_message(xml_string, exclusive_, comments_) ==
    Bind(xml_string, LAMBDA xml :
      [ns |-> IF exclusive_ THEN {} ELSE xml.ns,
       nodes |-> IF comments_ THEN xml.nodes ELSE StripComments(xml.nodes)])

\* A digest that does not depend on the text of the elements.
calculate_digest_textless(xml_string, exclusive_, comments_) ==
    Bind(canonicalizate_message(xml_string, exclusive_, comments_), LAMBDA c :
      [c EXCEPT !.nodes = [i \in 1..Len(c.nodes) |->
                             [c.nodes[i] EXCEPT !.text = NoText, !.id = 0]]])

\* hashlib.sha1 of the canonical bytes.
calculate_digest(xml_string, exclusive_, comments_) ==
    canonicalizate_message(xml_string, exclusive_, comments_)

\* str(base64.b64encode(digest.digest()), 'utf-8')
B64Digest(digest) == Text("digest", <<>>, 0, digest)

\* ------------------------------------------------------- keys, certificates
\* A private-key file: state is "ok", "missing" (open fails) or "badformat"
\* (RSA.importKey fails); key names the RSA key pair.
KeyFile(state, key) == [state |-> state, key |-> key]

\* A certificate file: state is "ok" or "missing"; content is what is read.
CertFile(state, content) == [state |-> state, content |-> content]

\* Certificate n carries the public key of private key n and the serial
\* number n.
PublicKeyOf(cert) == cert.n

\* X509.get_serial_number(): an int.
get_serial_number(cert) == [type |-> "int", v |-> cert.n]

\* Revoked.get_serial(): the serial number as hexadecimal text, bytes.
get_serial(revoked) == [type |-> "bytes", v |-> revoked]

\* ------------------------------------------------------------ signature.py
C14NWITHCOMMENTS == "http://www.w3.org/TR/2001/REC-xml-c14n-20010315#WithComments"

RSASHA1 == "http://www.w3.org/2000/09/xmldsig#rsa-sha1"

ENVELOPED == "http://www.w3.org/2000/09/xmldsig#enveloped-signature"

SHA1 == "http://www.w3.org/2000/09/xmldsig#sha1"

\* plugin.C14N
C14N == "http://www.w3.org/2001/10/xml-exc-c14n#"

\* `part in algorithm` for the Algorithm values that occur.
Contains(algorithm, part) ==
    <<algorithm, part>> \in {<<C14NWITHCOMMENTS, "#WithComments">>,
                             <<C14N, "xml-exc-c14n#">>}

\* Result of a call that returns a value or raises: exc is "" or the name
\* of the exception.
Returned(value) == [exc |-> "", value |-> value]

Raised(exc, value) == [exc |-> exc, value |-> value]

calculate_signature_value(xml_string, private_key, exclusive_, comments_) ==
    LET canonicalizated_info ==
            canonicalizate_message(xml_string, exclusive_, comments_)
    IN  IF private_key.state = "missing" THEN Raised("IOError", NoText)
        ELSE IF private_key.state = "badformat"
        THEN Raised("ValueError", NoText)
        ELSE Returned(Text("sig", <<>>, private_key.key, canonicalizated_info))

\* The SignedInfo element built by generate_xml_signature.
SIGNEDINFO(digest) ==
    << El("SignedInfo", 0),
       ElAlg("CanonicalizationMethod", 1, C14NWITHCOMMENTS),
       ElAlg("SignatureMethod", 1, RSASHA1),
       Node("Reference", 1, 0, 0, "", NoText),
       El("Transforms", 4),
       ElAlg("Transform", 5, ENVELOPED),
       ElAlg("DigestMethod", 4, SHA1),
       ElText("DigestValue", 4, B64Digest(digest)) >>

\* The Signature element: SignedInfo, SignatureValue and KeyInfo.
SIGNATURE(info, signaturevalue, certificate) ==
    AppendChild(
      AppendChild(
        AppendChild(<< El("Signature", 0) >>, 1, info),
        1, << ElText("SignatureValue", 0, signaturevalue) >>),
      1, << El("KeyInfo", 0), El("X509Data", 1),
            ElText("X509Certificate", 2, certificate) >>)

\* generate_xml_signature without the failure of a missing certificate file.
generate_xml_signature_unchecked(xml_string, private_key, X509certificate) ==
    Bind(xml_string, LAMBDA xml :
      Bind(SIGNEDINFO(calculate_digest(xml, FALSE, TRUE)), LAMBDA info :
        LET tree == Doc(xml.ns, AppendChild(xml.nodes, 1, info))
            info_message == tostring(tree, Len(xml.nodes) + 1)
        IN  Bind(calculate_signature_value(info_message, private_key, FALSE,
                                           TRUE),
                 LAMBDA signaturevalue :
                   IF signaturevalue.exc # ""
                   THEN Raised(signaturevalue.exc, <<>>)
                   ELSE Returned(SIGNATURE(info, signaturevalue.value,
                                           X509certificate.content)))))

\* generate_xml_signature with the document digest computed without
\* comments (comments_ left at its default).
generate_xml_signature_nocomments(xml_string, private_key, X509certificate) ==
    Bind(xml_string, LAMBDA xml :
      Bind(SIGNEDINFO(calculate_digest(xml, FALSE, FALSE)), LAMBDA info :
        LET tree == Doc(xml.ns, AppendChild(xml.nodes, 1, info))
            info_message == tostring(tree, Len(xml.nodes) + 1)
        IN  Bind(calculate_signature_value(info_message, private_key, FALSE,
                                           TRUE),
                 LAMBDA signaturevalue :
                   IF signaturevalue.exc # ""
                   THEN Raised(signaturevalue.exc, <<>>)
                   ELSE IF X509certificate.state = "missing"
                   THEN Raised("IOError", <<>>)
                   ELSE Returned(SIGNATURE(info, signaturevalue.value,
                                           X509certificate.content)))))

generate_xml_signature(xml_string, private_key, X509certificate) ==
    Bind(xml_string, LAMBDA xml :
      Bind(SIGNEDINFO(calculate_digest(xml, FALSE, TRUE)), LAMBDA info :
        LET tree == Doc(xml.ns, AppendChild(xml.nodes, 1, info))
            info_message == tostring(tree, Len(xml.nodes) + 1)
        IN  Bind(calculate_signature_value(info_message, private_key, FALSE,
                                           TRUE),
                 LAMBDA signaturevalue :
                   IF signaturevalue.exc # ""
                   THEN Raised(signaturevalue.exc, <<>>)
                   ELSE IF X509certificate.state = "missing"
                   THEN Raised("IOError", <<>>)
                   ELSE Returned(SIGNATURE(info, signaturevalue.value,
                                           X509certificate.content)))))

\* sign returning the tree to which generate_xml_signature attached the
\* SignedInfo, with a copy of the SignedInfo left as a child of the root.
sign_info_left(xml_string, private_key, certificate) ==
    Bind(xml_string, LAMBDA xml :
      IF ~xml.ok THEN Raised("RuntimeError", Malformed)
      ELSE LET e == Doc(xml.ns, xml.nodes)
           IN  Bind(generate_xml_signature(tostring(e, 1), private_key,
                                           certificate),
                    LAMBDA signature :
                      IF signature.exc # ""
                      THEN Raised(signature.exc, Malformed)
                      ELSE Returned(Doc(xml.ns,
                                        AppendChild(
                                          AppendChild(
                                            xml.nodes, 1,
                                            Subtree(signature.value, 2)),
                                          1, signature.value)))))

sign(xml_string, private_key, certificate) ==
    Bind(xml_string, LAMBDA xml :
      IF ~xml.ok THEN Raised("RuntimeError", Malformed)
      ELSE LET e == Doc(xml.ns, xml.nodes)
           IN  Bind(generate_xml_signature(tostring(e, 1), private_key,
                                           certificate),
                    LAMBDA signature :
                      IF signature.exc # ""
                      THEN Raised(signature.exc, Malformed)
                      ELSE Returned(Doc(xml.ns,
                                        AppendChild(xml.nodes, 1,
                                                    signature.value)))))

\* None is returned as NoText, as is the text of an element without text.
get_certificate(xml_string) ==
    Bind(xml_string, LAMBDA tree :
      LET keyinfo == XPathAll(tree.nodes, "KeyInfo")
          reference == XPathAll(tree.nodes, "wsse:Reference")
          bst == XPathAll(tree.nodes, "BinarySecurityToken")
          certificate == XPathAll(tree.nodes, "X509Certificate")
      IN  IF keyinfo = {} THEN Returned(NoText)
          ELSE IF reference # {}
          THEN IF "wsse" \notin tree.ns THEN Raised("XPathEvalError", NoText)
               ELSE IF bst # {} THEN Returned(tree.nodes[Min(bst)].text)
               ELSE Returned(NoText)
          ELSE IF certificate # {}
          THEN Returned(tree.nodes[Min(certificate)].text)
          ELSE Returned(NoText))

\* ---------------------------------------------------------- certificate.py
\* Content of the CRL cache file or of the bank's CRL endpoint: k is "crl"
\* (a DER CRL revoking the serial numbers in revoked), "empty" (no bytes) or
\* "garbage" (bytes that are no CRL).
CrlBytes(k, revoked) == [k |-> k, revoked |-> revoked]

EmptyBytes == CrlBytes("empty", {})

\* The file system as check_revocation_status sees it: dir is the state of
\* the directory resources ("present", "absent", or "locked": absent and
\* os.mkdir fails); exists, content and mtime describe the cache file
\* resources/OP-Pohjola-ws.crl.
FileSystem(dir, exists, content, mtime) ==
    [dir |-> dir, exists |-> exists, content |-> content, mtime |-> mtime]

\* timedelta.days of a difference of clock ticks.
days(difference) == difference \div DayTicks

\* The age test on timedelta.seconds instead of timedelta.days.
RenewBySeconds(fs, now) ==
    IF fs.exists THEN (now - fs.mtime) % DayTicks > 0 ELSE TRUE

\* Lines 34-43: whether the cache is to be renewed.
Renew(fs, now) ==
    IF fs.exists THEN days(now - fs.mtime) > 0 ELSE TRUE

\* A refresh that touches the cache file only when the download returned.
OpenAndDownload_atomic(fs, now, netUp, bankCrl) ==
    IF netUp
    THEN [fs EXCEPT !.dir = "present", !.exists = TRUE, !.mtime = now,
                    !.content = bankCrl]
    ELSE fs

\* with open(crl, 'wb') as f: r = request.urlopen(url).read(); f.write(r)
\* open creates or truncates the file; the write happens only when the
\* download returned.
OpenAndDownload(fs, now, netUp, bankCrl) ==
    [fs EXCEPT !.dir = "present", !.exists = TRUE, !.mtime = now,
               !.content = IF netUp THEN bankCrl ELSE EmptyBytes]

CrlResult(ret, exc, fs, download, read) ==
    [called |-> TRUE, ret |-> ret, exc |-> exc, fs |-> fs,
     download |-> download, read |-> read]

\* Lines 81-95: read the cache file and look the certificate up.
LookupRevoked(certificate, fs, download) ==
    IF ~fs.exists THEN CrlResult("raise", "IOError", fs, download, FALSE)
    ELSE IF fs.content.k # "crl"
    THEN CrlResult("raise", "crypto.Error", fs, download, TRUE)
    ELSE IF certificate.k # "cert"
    THEN CrlResult("raise", "ValueError", fs, download, TRUE)
    ELSE LET sn == get_serial_number(certificate)
         IN  IF \E cert \in fs.content.revoked : get_serial(cert) = sn
             THEN CrlResult("True", "", fs, download, TRUE)
             ELSE CrlResult("False", "", fs, download, TRUE)

check_revocation_status(certificate, fs, now, netUp, bankCrl) ==
    IF ~Renew(fs, now) THEN LookupRevoked(certificate, fs, FALSE)
    ELSE IF fs.dir = "present"
    THEN LET fs1 == OpenAndDownload(fs, now, netUp, bankCrl)
         IN  IF ~netUp /\ ~fs1.exists          \* except URLError, line 54
             THEN CrlResult("False", "", fs1, TRUE, FALSE)
             ELSE LookupRevoked(certificate, fs1, TRUE)
    ELSE IF fs.dir = "locked"                  \* os.mkdir fails, line 62
    THEN CrlResult("False", "", fs, FALSE, FALSE)
    ELSE LET fs1 == OpenAndDownload(fs, now, netUp, bankCrl)
         IN  IF ~netUp                         \* except EnvironmentError, line 74
             THEN CrlResult("False", "", fs1, TRUE, FALSE)
             ELSE LookupRevoked(certificate, fs1, TRUE)

NoCrlCall(fs) ==
    [called |-> FALSE, ret |-> "", exc |-> "", fs |-> fs, download |-> FALSE,
     read |-> FALSE]

\* ------------------------------------------------- signature.py: validate
Max(S) == CHOOSE x \in S : \A y \in S : y <= x

\* The k-th smallest element of a set of numbers.
Kth(S, k) == CHOOSE x \in S : Cardinality({y \in S : y < x}) = k - 1

\* The elements of a set of numbers in ascending order.
SetToSeq(set) == Bind(set, LAMBDA S : [k \in 1..Cardinality(S) |-> Kth(S, k)])

\* Characters base64.b64decode discards instead of decoding.
NonAlphabet == {".", "-", ":"}

\* base64.b64decode(bytes(text, 'utf-8')) returns (does not raise
\* binascii.Error: Incorrect padding).
B64Ok(text) ==
    text.k = "str" =>
        Len(SelectSeq(text.s, LAMBDA ch : ch \notin NonAlphabet)) % 4 = 0

\* OpenSSL.crypto.verify(cert, signature, data, 'sha1') does not raise.
verify(cert, signaturevalue, data) ==
    /\ signaturevalue.k = "sig"
    /\ signaturevalue.n = PublicKeyOf(cert)
    /\ signaturevalue.c = data

\* Lines 84-87: the DigestValue elements under the signature, the keys of
\* the dict digestvalues, and the value kept per key.  The keys are taken
\* in insertion order, the order in which CPython 3.6 and later iterate.
DigestValueNodes(nodes, signature) ==
    SetToSeq({i \in Iter(nodes, signature) : nodes[i].tag = "DigestValue"})

DigestKeysAll(nodes, signature) ==
    Bind(DigestValueNodes(nodes, signature), LAMBDA dv :
      [k \in 1..Len(dv) |-> nodes[nodes[dv[k]].parent].uri])

DigestKeys(nodes, signature) ==
    Bind(DigestKeysAll(nodes, signature), LAMBDA all :
      Bind({k \in 1..Len(all) : \A j \in 1..(k - 1) : all[j] # all[k]},
           LAMBDA first : [m \in 1..Cardinality(first) |-> all[Kth(first, m)]]))

\* The DigestValue kept for a URI being that of the first element with it.
DigestValueOf_first(nodes, signature, key) ==
    Bind2(DigestValueNodes(nodes, signature), DigestKeysAll(nodes, signature),
          LAMBDA dv, all :
            nodes[dv[Min({k \in 1..Len(all) : all[k] = key})]].text)

\* digestvalues[key] after the loop of lines 84-87: the text of the last
\* DigestValue whose parent carries that URI.
DigestValueOf(nodes, signature, key) ==
    Bind2(DigestValueNodes(nodes, signature), DigestKeysAll(nodes, signature),
          LAMBDA dv, all :
            nodes[dv[Max({k \in 1..Len(all) : all[k] = key})]].text)

LoopResult(res, exc, tree) == [res |-> res, exc |-> exc, tree |-> tree]

RECURSIVE DigestLoop(_, _, _, _, _, _, _)
\* Lines 127-144, from the k-th key on.  tree is the parsed document as the
\* iterations before have left it; signature is the index of the Signature
\* element in it.
DigestLoop(keys, values, k, tree, signature, exclusive, comments) ==
    IF k > Len(keys) THEN LoopResult("ok", "", tree)
    ELSE IF keys[k] = 0
    THEN IF tree.nodes[signature].parent # 1
         THEN LoopResult("raise", "ValueError", tree)
         ELSE Bind(Doc(tree.ns, Remove(tree.nodes, signature)), LAMBDA removed :
                LET digest_value ==
                        B64Digest(calculate_digest(tostring(removed, 1),
                                                   exclusive, comments))
                IN  IF digest_value # values[k]
                    THEN LoopResult("False", "", removed)
                    ELSE DigestLoop(keys, values, k + 1, removed, signature,
                                    exclusive, comments))
    ELSE IF keys[k] = -1 THEN LoopResult("raise", "TypeError", tree)
    ELSE IF "wsu" \notin tree.ns THEN LoopResult("raise", "XPathEvalError", tree)
    ELSE Bind({i \in 1..Len(tree.nodes) : tree.nodes[i].id = keys[k]},
              LAMBDA result :
                LET digest_value ==
                        IF Cardinality(result) = 1
                        THEN B64Digest(calculate_digest(
                                         tostring(tree, Min(result)),
                                         exclusive, comments))
                        ELSE Str(<<>>)
                IN  IF digest_value # values[k]
                    THEN LoopResult("False", "", tree)
                    ELSE DigestLoop(keys, values, k + 1, tree, signature,
                                    exclusive, comments))

\* What a call of validate did: ret is "True", "False" or "raise" (exc names
\* the exception); step names the statement that ended the call; fs is the
\* file system it leaves; crl is the call of check_revocation_status, if
\* any; verified tells whether crypto.verify was called; tree is the parsed
\* tree as the call leaves it.
Validated(ret, exc, step, crl, verified, tree) ==
    [ret |-> ret, exc |-> exc, step |-> step, crl |-> crl,
     verified |-> verified, tree |-> tree]

\* validate with the revocation list consulted before the digests are
\* compared.
validate_signed_crl_first(tree, signature, signaturevalue, signed_info, certificate_data, fs, now, netUp, bankCrl) ==
    LET nodes == tree.nodes
        Ended(ret, exc, step) ==
            Validated(ret, exc, step, NoCrlCall(fs), FALSE, nodes)
        algorithm == {i \in XPathAll(nodes, "CanonicalizationMethod") :
                        nodes[i].alg # ""}
    IN
    IF algorithm = {} THEN Ended("raise", "UnboundLocalError", "algorithm")
    ELSE
    Bind2(Contains(nodes[Min(algorithm)].alg, "#WithComments"),
          Contains(nodes[Min(algorithm)].alg, "xml-exc-c14n#"),
          LAMBDA comments, exclusive :
    Bind(DigestKeys(nodes, signature), LAMBDA keys :
    Bind([k \in 1..Len(keys) |-> DigestValueOf(nodes, signature, keys[k])],
         LAMBDA values :
    Bind(DigestLoop(keys, values, 1, tree, signature, exclusive, comments),
         LAMBDA loop :
    IF loop.res = "raise"
    THEN Validated("raise", loop.exc, "digest", NoCrlCall(fs), FALSE,
                   loop.tree.nodes)
    ELSE IF loop.res = "False"
    THEN Validated("False", "", "digest",
                   check_revocation_status(certificate_data, fs, now, netUp,
                                           bankCrl),
                   FALSE, loop.tree.nodes)
    ELSE
    Bind(check_revocation_status(certificate_data, fs, now, netUp, bankCrl),
         LAMBDA crl :
    LET Checked(ret, exc, step, verified) ==
            Validated(ret, exc, step, crl, verified, loop.tree.nodes)
        canonicalizated_info ==
            canonicalizate_message(tostring(tree, signed_info), exclusive,
                                   comments)
    IN
    IF crl.ret = "raise" /\ crl.exc = "ValueError"
    THEN Checked("False", "", "certificate_format", FALSE)
    ELSE IF crl.ret = "raise" THEN Checked("raise", crl.exc, "revocation", FALSE)
    ELSE IF crl.ret = "True" THEN Checked("False", "", "revoked", FALSE)
    ELSE IF certificate_data.k # "cert"
    THEN Checked("False", "", "load_certificate", FALSE)
    ELSE IF ~verify(certificate_data, signaturevalue, canonicalizated_info)
    THEN Checked("False", "", "verify", TRUE)
    ELSE Checked("True", "", "valid", TRUE))))))

\* Lines 113-171, for the signature, SignatureValue text, SignedInfo
\* element and certificate found before.
validate_signed(tree, signature, signaturevalue, signed_info, certificate_data, fs, now, netUp, bankCrl) ==
    LET nodes == tree.nodes
        Ended(ret, exc, step) ==
            Validated(ret, exc, step, NoCrlCall(fs), FALSE, nodes)
        algorithm == {i \in XPathAll(nodes, "CanonicalizationMethod") :
                        nodes[i].alg # ""}
    IN
    IF algorithm = {} THEN Ended("raise", "UnboundLocalError", "algorithm")
    ELSE
    Bind2(Contains(nodes[Min(algorithm)].alg, "#WithComments"),
          Contains(nodes[Min(algorithm)].alg, "xml-exc-c14n#"),
          LAMBDA comments, exclusive :
    Bind(DigestKeys(nodes, signature), LAMBDA keys :
    Bind([k \in 1..Len(keys) |-> DigestValueOf(nodes, signature, keys[k])],
         LAMBDA values :
    Bind(DigestLoop(keys, values, 1, tree, signature, exclusive, comments),
         LAMBDA loop :
    IF loop.res = "raise"
    THEN Validated("raise", loop.exc, "digest", NoCrlCall(fs), FALSE,
                   loop.tree.nodes)
    ELSE IF loop.res = "False"
    THEN Validated("False", "", "digest", NoCrlCall(fs), FALSE,
                   loop.tree.nodes)
    ELSE
    Bind(check_revocation_status(certificate_data, fs, now, netUp, bankCrl),
         LAMBDA crl :
    LET Checked(ret, exc, step, verified) ==
            Validated(ret, exc, step, crl, verified, loop.tree.nodes)
        canonicalizated_info ==
            canonicalizate_message(tostring(tree, signed_info), exclusive,
                                   comments)
    IN
    IF crl.ret = "raise" /\ crl.exc = "ValueError"
    THEN Checked("False", "", "certificate_format", FALSE)
    ELSE IF crl.ret = "raise" THEN Checked("raise", crl.exc, "revocation", FALSE)
    ELSE IF crl.ret = "True" THEN Checked("False", "", "revoked", FALSE)
    ELSE IF certificate_data.k # "cert"
    THEN Checked("False", "", "load_certificate", FALSE)
    ELSE IF ~verify(certificate_data, signaturevalue, canonicalizated_info)
    THEN Checked("False", "", "verify", TRUE)
    ELSE Checked("True", "", "valid", TRUE))))))

validate(xml_string, fs, now, netUp, bankCrl) ==
    Bind(xml_string, LAMBDA tree :
    IF ~tree.ok
    THEN Validated("False", "", "parse", NoCrlCall(fs), FALSE, <<>>)
    ELSE
    LET nodes == tree.nodes
        Ended(ret, exc, step) ==
            Validated(ret, exc, step, NoCrlCall(fs), FALSE, nodes)
    IN
    Bind(XPathAll(nodes, "Signature"), LAMBDA result :
    IF result = {} THEN Ended("False", "", "signature")
    ELSE
    Bind(Min(result), LAMBDA signature :
    Bind2({i \in Iter(nodes, signature) : nodes[i].tag = "SignedInfo"},
          {i \in Iter(nodes, signature) : nodes[i].tag = "SignatureValue"},
          LAMBDA sis, svs :
    Bind2(IF svs = {} THEN NoText ELSE nodes[Max(svs)].text,
          get_certificate(tree),
          LAMBDA signaturevalue, certificate :
    IF certificate.exc # "" THEN Ended("raise", certificate.exc, "get_certificate")
    ELSE IF certificate.value = NoText THEN Ended("False", "", "certificate")
    ELSE IF signaturevalue = NoText THEN Ended("False", "", "signaturevalue")
    ELSE IF sis = {} THEN Ended("False", "", "signed_info")
    ELSE IF ~B64Ok(certificate.value) \/ ~B64Ok(signaturevalue)
    THEN Ended("raise", "binascii.Error", "b64decode")
    ELSE validate_signed(tree, signature, signaturevalue, Max(sis),
                         certificate.value, fs, now, netUp, bankCrl))))))

\* ---------------------------------------------------------------- plugin.py
RSA == "http://www.w3.org/2000/09/xmldsig#rsa-sha1"

X509 == "http://docs.oasis-open.org/wss/2004/01/oasis-200401-wss-x509-token-profile-1.0#X509v3"

\* BODY_XPATH, HEADER_XPATH: /SOAP-ENV:Envelope/SOAP-ENV:<tag>
EnvelopeChild(nodes, tag) ==
    {i \in XPathChildren(nodes, 1, tag) : nodes[1].tag = "Envelope"}

\* 'id-{0}'.format(uuid4()): an identifier that occurs nowhere in the
\* document, neither as a wsu:Id nor in a URI.
get_unique_id(tree) ==
    Bind(tree, LAMBDA nodes :
      Max({0} \cup {nodes[i].id : i \in 1..Len(nodes)}
              \cup {nodes[i].uri : i \in 1..Len(nodes)}) + 1)

\* SignQueue.mark and SignQueue.push_and_mark: the tree and the queue they
\* leave, and what they return (ret 0: None).
Marked(nodes, queue, ret) == [nodes |-> nodes, queue |-> queue, ret |-> ret]

mark(nodes, queue, element) ==
    Bind(get_unique_id(nodes), LAMBDA unique_id :
      Marked([nodes EXCEPT ![element].id = unique_id], queue, unique_id))

push_and_mark(nodes, queue, element) ==
    Bind(get_unique_id(nodes), LAMBDA unique_id :
      Marked([nodes EXCEPT ![element].id = unique_id],
             Append(queue, unique_id), 0))

RECURSIVE insert_references_reversed(_, _, _)
\* insert_references taking the identifiers from the end of the queue.
insert_references_reversed(nodes, signed_info, queue) ==
    IF queue = <<>> THEN nodes
    ELSE insert_references_reversed(
           AppendChild(nodes, signed_info,
                       << Node("Reference", 0, 0, queue[Len(queue)], "", NoText),
                          El("Transforms", 1),
                          ElAlg("Transform", 2, C14N),
                          ElAlg("DigestMethod", 1, SHA1),
                          El("DigestValue", 1) >>),
           signed_info, SubSeq(queue, 1, Len(queue) - 1))

RECURSIVE insert_references(_, _, _)
\* SignQueue.insert_references, for the queue `queue`.
insert_references(nodes, signed_info, queue) ==
    IF queue = <<>> THEN nodes
    ELSE insert_references(
           AppendChild(nodes, signed_info,
                       << Node("Reference", 0, 0, Head(queue), "", NoText),
                          El("Transforms", 1),
                          ElAlg("Transform", 2, C14N),
                          ElAlg("DigestMethod", 1, SHA1),
                          El("DigestValue", 1) >>),
           signed_info, Tail(queue))

RECURSIVE PushTimestamps(_, _, _)
\* Line 360: for timestamp in TIMESTAMP_XPATH(security[0]): push_and_mark
PushTimestamps(nodes, queue, timestamps) ==
    IF timestamps = <<>> THEN Marked(nodes, queue, 0)
    ELSE Bind(push_and_mark(nodes, queue, Head(timestamps)), LAMBDA m :
           PushTimestamps(m.nodes, m.queue, Tail(timestamps)))

\* ensure_security_header creating, with a missing Security header, a
\* Timestamp in it and queueing that Timestamp.
ensure_security_header_stamped(nodes, queue, header) ==
    Bind(XPathChildren(nodes, header, "Security"), LAMBDA security :
      IF security # {}
      THEN Bind(PushTimestamps(nodes, queue,
                               SetToSeq(XPathChildren(nodes, Min(security),
                                                      "Timestamp"))),
                LAMBDA m : Marked(m.nodes, m.queue, Min(security)))
      ELSE Bind(push_and_mark(
                  AppendChild(nodes, header,
                              << El("Security", 0), El("Timestamp", 1),
                                 ElText("Created", 2, Str(<< "T" >>)),
                                 ElText("Expires", 2, Str(<< "U" >>)) >>),
                  queue, End(nodes, header) + 2),
                LAMBDA m : Marked(m.nodes, m.queue, End(nodes, header) + 1)))

\* ensure_security_header: the tree and queue it leaves; ret is the index
\* of the Security element.  header is the one Header of the envelope.
ensure_security_header(nodes, queue, header) ==
    Bind(XPathChildren(nodes, header, "Security"), LAMBDA security :
      IF security # {}
      THEN Bind(PushTimestamps(nodes, queue,
                               SetToSeq(XPathChildren(nodes, Min(security),
                                                      "Timestamp"))),
                LAMBDA m : Marked(m.nodes, m.queue, Min(security)))
      ELSE Marked(AppendChild(nodes, header, << El("Security", 0) >>),
                  queue, End(nodes, header) + 1))

\* A rewrite that leaves a text without fraction that ends in 'Z' alone.
RewriteTime_once(text) ==
    LET dots == {i \in 1..Len(text.s) : text.s[i] = "."}
        whole == IF dots = {} THEN text.s ELSE SubSeq(text.s, 1, Min(dots) - 1)
    IN  IF whole # <<>> /\ whole[Len(whole)] = "Z" THEN Str(whole)
        ELSE Str(whole \o << "Z" >>)

\* created.text.split(".")[0] + 'Z'
RewriteTime(text) ==
    LET dots == {i \in 1..Len(text.s) : text.s[i] = "."}
        whole == IF dots = {} THEN text.s ELSE SubSeq(text.s, 1, Min(dots) - 1)
    IN  Str(whole \o << "Z" >>)

\* First child of element p named tag (0: none): p.find(tag), XPath(tag)(p)[0]
FirstChild(nodes, p, tag) ==
    Bind(XPathChildren(nodes, p, tag), LAMBDA found :
      IF found = {} THEN 0 ELSE Min(found))

\* insert_binary_security_token: the BinarySecurityToken becomes the last
\* child of security, is marked, and gets the certificate as its text; ret
\* is its Id.
insert_binary_security_token(nodes, security, queue, certificate) ==
    Bind(End(nodes, security) + 1, LAMBDA binsec :
      Bind(mark(AppendChild(nodes, security,
                            << ElAlg("BinarySecurityToken", 0, "") >>),
                queue, binsec),
           LAMBDA m :
             Marked([m.nodes EXCEPT ![binsec].text = certificate.content],
                    queue, m.ret)))

\* append_signed_info declaring the canonicalization of the application
\* profile.
append_signed_info_withcomments(nodes, signature, queue) ==
    insert_references(
      AppendChild(nodes, signature,
                  << El("SignedInfo", 0),
                     ElAlg("CanonicalizationMethod", 1, C14NWITHCOMMENTS),
                     ElAlg("SignatureMethod", 1, RSA) >>),
      End(nodes, signature) + 1, queue)

\* append_signed_info: SignedInfo with its two algorithms and one
\* Reference per queued Id becomes the last child of signature.
append_signed_info(nodes, signature, queue) ==
    insert_references(
      AppendChild(nodes, signature,
                  << El("SignedInfo", 0),
                     ElAlg("CanonicalizationMethod", 1, C14N),
                     ElAlg("SignatureMethod", 1, RSA) >>),
      End(nodes, signature) + 1, queue)

append_key_info(nodes, signature, security_id) ==
    AppendChild(nodes, signature,
                << El("KeyInfo", 0),
                   El("SecurityTokenReference", 1),
                   Node("wsse:Reference", 2, 0, security_id, "", NoText) >>)

insert_signature_template(nodes, security, security_id, queue) ==
    Bind(End(nodes, security) + 1, LAMBDA signature :
      append_key_info(
        AppendChild(
          append_signed_info(
            AppendChild(nodes, security, << El("Signature", 0) >>),
            signature, queue),
          signature, << El("SignatureValue", 0) >>),
        signature, security_id))

\* get_signature with the Timestamp digest computed before Created and
\* Expires are rewritten.
get_signature_digest_first(envelope, keyfile, body, security, timestamp, created, expired) ==
    LET doc == envelope.nodes
        body_id == doc[body].id
        timestamp_id == doc[timestamp].id
    IN
    Bind([doc EXCEPT ![created].text = RewriteTime(doc[created].text),
                     ![expired].text = RewriteTime(doc[expired].text)],
         LAMBDA doc2 :
    Bind2(B64Digest(calculate_digest(tostring(envelope, body), TRUE, FALSE)),
          B64Digest(calculate_digest(tostring(envelope, timestamp), TRUE, FALSE)),
          LAMBDA body_digest, timestamp_digest :
    Bind(FirstChild(doc2, security, "Signature"), LAMBDA signature_ :
    Bind(IF signature_ = 0 THEN 0
         ELSE FirstChild(doc2, signature_, "SignedInfo"),
         LAMBDA signed_info :
    IF signature_ = 0 \/ signed_info = 0 THEN Raised("IndexError", Malformed)
    ELSE
    Bind(XPathChildren(doc2, signed_info, "Reference"), LAMBDA references :
    LET Hit(r) == doc2[r].uri \in {body_id, timestamp_id} IN
    Bind([i \in 1..Len(doc2) |->
            IF /\ doc2[i].parent \in references
               /\ Hit(doc2[i].parent)
               /\ i = FirstChild(doc2, doc2[i].parent, "DigestValue")
            THEN [doc2[i] EXCEPT !.text =
                    IF doc2[doc2[i].parent].uri = body_id
                    THEN body_digest ELSE timestamp_digest]
            ELSE doc2[i]],
         LAMBDA doc3 :
    Bind2(calculate_signature_value(
            tostring(Doc(envelope.ns, doc3), signed_info), keyfile, TRUE,
            FALSE),
          FirstChild(doc3, signature_, "SignatureValue"),
          LAMBDA signaturevalue, SignatureValue :
    IF \E r \in references : doc2[r].uri = -1 THEN Raised("KeyError", Malformed)
    ELSE IF \E r \in references :
               Hit(r) /\ FirstChild(doc2, r, "DigestValue") = 0
    THEN Raised("AttributeError", Malformed)
    ELSE IF signaturevalue.exc # "" THEN Raised(signaturevalue.exc, Malformed)
    ELSE IF SignatureValue = 0 THEN Raised("AttributeError", Malformed)
    ELSE Returned(Doc(envelope.ns,
                      [doc3 EXCEPT ![SignatureValue].text =
                                       signaturevalue.value])))))))))

\* Lines 227-269 of get_signature, after the Body, the Timestamp and its
\* Created and Expires were found.
get_signature_filled(envelope, keyfile, body, security, timestamp, created, expired) ==
    LET doc == envelope.nodes
        body_id == doc[body].id
        timestamp_id == doc[timestamp].id
    IN
    Bind([doc EXCEPT ![created].text = RewriteTime(doc[created].text),
                     ![expired].text = RewriteTime(doc[expired].text)],
         LAMBDA doc2 :
    Bind2(B64Digest(calculate_digest(tostring(envelope, body), TRUE, FALSE)),
          B64Digest(calculate_digest(tostring(Doc(envelope.ns, doc2),
                                              timestamp), TRUE, FALSE)),
          LAMBDA body_digest, timestamp_digest :
    Bind(FirstChild(doc2, security, "Signature"), LAMBDA signature_ :
    Bind(IF signature_ = 0 THEN 0
         ELSE FirstChild(doc2, signature_, "SignedInfo"),
         LAMBDA signed_info :
    IF signature_ = 0 \/ signed_info = 0 THEN Raised("IndexError", Malformed)
    ELSE
    Bind(XPathChildren(doc2, signed_info, "Reference"), LAMBDA references :
    LET Hit(r) == doc2[r].uri \in {body_id, timestamp_id} IN
    Bind([i \in 1..Len(doc2) |->
            IF /\ doc2[i].parent \in references
               /\ Hit(doc2[i].parent)
               /\ i = FirstChild(doc2, doc2[i].parent, "DigestValue")
            THEN [doc2[i] EXCEPT !.text =
                    IF doc2[doc2[i].parent].uri = body_id
                    THEN body_digest ELSE timestamp_digest]
            ELSE doc2[i]],
         LAMBDA doc3 :
    Bind2(calculate_signature_value(
            tostring(Doc(envelope.ns, doc3), signed_info), keyfile, TRUE,
            FALSE),
          FirstChild(doc3, signature_, "SignatureValue"),
          LAMBDA signaturevalue, SignatureValue :
    IF \E r \in references : doc2[r].uri = -1 THEN Raised("KeyError", Malformed)
    ELSE IF \E r \in references :
               Hit(r) /\ FirstChild(doc2, r, "DigestValue") = 0
    THEN Raised("AttributeError", Malformed)
    ELSE IF signaturevalue.exc # "" THEN Raised(signaturevalue.exc, Malformed)
    ELSE IF SignatureValue = 0 THEN Raised("AttributeError", Malformed)
    ELSE Returned(Doc(envelope.ns,
                      [doc3 EXCEPT ![SignatureValue].text =
                                       signaturevalue.value])))))))))

\* SignerPlugin.get_signature
get_signature(envelope_, keyfile) ==
    Bind(envelope_, LAMBDA envelope :
    LET doc == envelope.nodes IN
    Bind2(FirstChild(doc, 1, "Body"), FirstChild(doc, 1, "Header"),
          LAMBDA body, header :
    Bind(IF header = 0 THEN 0 ELSE FirstChild(doc, header, "Security"),
         LAMBDA security :
    Bind(IF security = 0 THEN 0 ELSE FirstChild(doc, security, "Timestamp"),
         LAMBDA timestamp :
    Bind2(IF timestamp = 0 THEN 0 ELSE FirstChild(doc, timestamp, "Created"),
          IF timestamp = 0 THEN 0 ELSE FirstChild(doc, timestamp, "Expires"),
          LAMBDA created, expired :
    IF doc[1].tag # "Envelope" \/ body = 0 THEN Raised("IndexError", Malformed)
    ELSE IF doc[body].id = 0 THEN Raised("KeyError", Malformed)
    ELSE IF header = 0 \/ security = 0 \/ timestamp = 0
    THEN Raised("IndexError", Malformed)
    ELSE IF doc[timestamp].id = 0 THEN Raised("KeyError", Malformed)
    ELSE IF created = 0 \/ expired = 0 THEN Raised("IndexError", Malformed)
    ELSE IF doc[created].text.k # "str" \/ doc[expired].text.k # "str"
    THEN Raised("AttributeError", Malformed)
    ELSE get_signature_filled(envelope, keyfile, body, security, timestamp,
                              created, expired))))))

\* SignerPlugin.sending: the new context.envelope, or the exception raised
\* (context.envelope then keeps its value).
sending(envelope_, keyfile, certificate) ==
    Bind(envelope_, LAMBDA envelope :
    IF ~envelope.ok THEN Raised("XMLSyntaxError", Malformed)
    ELSE
    LET env == envelope.nodes IN
    IF Cardinality(EnvelopeChild(env, "Body")) # 1
    THEN Raised("ValueError", Malformed)
    ELSE
    Bind(push_and_mark(env, <<>>, Min(EnvelopeChild(env, "Body"))), LAMBDA m1 :
    IF Cardinality(EnvelopeChild(env, "Header")) # 1
    THEN Raised("ValueError", Malformed)
    ELSE
    Bind(ensure_security_header(m1.nodes, m1.queue,
                                Min(EnvelopeChild(env, "Header"))),
         LAMBDA m2 :
    Bind(insert_binary_security_token(m2.nodes, m2.ret, m2.queue, certificate),
         LAMBDA m3 :
    IF certificate.state = "missing" THEN Raised("IOError", Malformed)
    ELSE get_signature(
           Doc(envelope.ns,
               insert_signature_template(m3.nodes, m2.ret, m3.ret, m2.queue)),
           keyfile)))))

\* ------------------------------- the callers of validate: response parsers
\* The values of ResponseCode met in a header or in a response document:
\* accepted, schema failure in the uploaded data, any other refusal.
ResponseCodes == {"00", "12", "99"}

\* validate was not called.
NotValidated(fs) == Validated("", "", "", NoCrlCall(fs), FALSE, <<>>)

NoValue == [kind |-> "", accepted |-> FALSE, responsecode |-> ""]

\* What a caller of validate did: exc is the exception it raised ("":
\* none); parsed tells whether it went on to read the fields of the
\* document; value is the object it built or returned; code is the
\* ResponseCode of the header, where there is one; val is what validate
\* did.
Called(exc, parsed, value, code, val) ==
    [exc |-> exc, parsed |-> parsed, value |-> value, code |-> code,
     val |-> val]

NoCall == Called("", FALSE, NoValue, "", NotValidated(FileSystem("present", FALSE, EmptyBytes, 0)))

\* _validate_with_schema of both response classes: valid tells whether the
\* document, if it parses, satisfies the schema.
validate_with_schema(xml_string, valid) ==
    IF ~xml_string.ok THEN FALSE ELSE valid

\* ApplicationResponse.__init__ with the failed signature check recorded
\* in _accepted, as the failed schema check is, instead of raised.
ApplicationResponse_unverified(message, valid, responsecode, fs, now, netUp, bankCrl) ==
    Bind(validate(message, fs, now, netUp, bankCrl), LAMBDA v :
    IF v.ret = "raise" THEN Called(v.exc, FALSE, NoValue, "", v)
    ELSE Called("", TRUE,
                [kind |-> "ApplicationResponse",
                 accepted |-> validate_with_schema(message, valid)
                              /\ v.ret = "True",
                 responsecode |-> responsecode],
                "", v))

\* ApplicationResponse.__init__ (appresponse.py): valid and responsecode
\* are the schema validity and the ResponseCode text of the document.
ApplicationResponse(message, valid, responsecode, fs, now, netUp, bankCrl) ==
    Bind(validate(message, fs, now, netUp, bankCrl), LAMBDA v :
    IF v.ret = "raise" THEN Called(v.exc, FALSE, NoValue, "", v)
    ELSE IF v.ret = "False" THEN Called("ValueError", FALSE, NoValue, "", v)
    ELSE Called("", TRUE,
                [kind |-> "ApplicationResponse",
                 accepted |-> validate_with_schema(message, valid),
                 responsecode |-> responsecode],
                "", v))

\* ApplicationResponse.is_accepted
is_accepted(ar) == ~(ar.responsecode # "00" \/ ar.accepted = FALSE)

\* CertificateResponse.__init__ (caresponse.py)
CertificateResponse(message, valid, responsecode, fs, now, netUp, bankCrl) ==
    IF ~validate_with_schema(message, valid)
    THEN Called("ValueError", FALSE, NoValue, "", NotValidated(fs))
    ELSE
    Bind(validate(message, fs, now, netUp, bankCrl), LAMBDA v :
    IF v.ret = "raise" THEN Called(v.exc, FALSE, NoValue, "", v)
    ELSE IF v.ret = "False" THEN Called("ValueError", FALSE, NoValue, "", v)
    ELSE IF responsecode # "00" THEN Called("RuntimeError", TRUE, NoValue, "", v)
    ELSE Called("", TRUE,
                [kind |-> "CertificateResponse", accepted |-> TRUE,
                 responsecode |-> responsecode],
                "", v))

\* SignerPlugin.received (plugin.py): the reply is parsed, serialized again
\* and validated.
received(reply, fs, now, netUp, bankCrl) ==
    IF ~reply.ok
    THEN Called("XMLSyntaxError", FALSE, NoValue, "", NotValidated(fs))
    ELSE
    Bind(validate(tostring(reply, 1), fs, now, netUp, bankCrl), LAMBDA v :
    IF v.ret = "raise" THEN Called(v.exc, FALSE, NoValue, "", v)
    ELSE IF v.ret = "False" THEN Called("RuntimeError", FALSE, NoValue, "", v)
    ELSE Called("", FALSE, NoValue, "", v))

\* WebService._parse_response (webservice.py): decodable tells whether
\* response.ApplicationResponse is base64, application_response is what it
\* decodes to, code is header.ResponseCode.
parse_response(application_response, decodable, code, valid, responsecode, fs, now, netUp, bankCrl) ==
    IF ~decodable
    THEN Called("RuntimeError", FALSE, NoValue, code, NotValidated(fs))
    ELSE IF code # "00" /\ code # "12"
    THEN Called("RuntimeError", FALSE, NoValue, code, NotValidated(fs))
    ELSE
    Bind(ApplicationResponse(application_response, valid, responsecode, fs,
                             now, netUp, bankCrl),
         LAMBDA ar :
    IF code = "12"
    THEN IF ar.exc = "ValueError"        \* caught; ar.content: ar is unbound
         THEN Called("UnboundLocalError", ar.parsed, NoValue, code, ar.val)
         ELSE IF ar.exc # "" THEN Called(ar.exc, ar.parsed, NoValue, code, ar.val)
         ELSE Called("RuntimeError", ar.parsed, NoValue, code, ar.val)
    ELSE IF ar.exc = "ValueError"
    THEN Called("RuntimeError", ar.parsed, NoValue, code, ar.val)
    ELSE IF ar.exc # "" THEN Called(ar.exc, ar.parsed, NoValue, code, ar.val)
    ELSE IF is_accepted(ar.value)
    THEN Called("", ar.parsed, ar.value, code, ar.val)
    ELSE Called("RuntimeError", ar.parsed, NoValue, code, ar.val))

\* A call of a SignQueue method: the element it was given, what it
\* returned (0: None), and the queue and the tree before the call.
QueueCall(element, ret, queue, nodes) ==
    [element |-> element, ret |-> ret, queue |-> queue, nodes |-> nodes]

NoQueueCall == QueueCall(0, 0, <<>>, <<>>)

\* ------------------------------------------------------------------ inputs
\* Private-key files and certificate files handed to sign and to the
\* plugin.  Key 1 and certificate 1 are a matching pair; certificate 2
\* belongs to another key.
KeyFiles ==
    {KeyFile("ok", 1), KeyFile("missing", 0), KeyFile("badformat", 0)}

CertFiles ==
    {CertFile("ok", CertText(1)), CertFile("ok", CertText(2)),
     CertFile("missing", NoText)}

Matching(key, cert) ==
    key.state = "ok" /\ cert.state = "ok" /\ cert.content.k = "cert"
                     /\ PublicKeyOf(cert.content) = key.key

\* Application messages handed to sign: a plain request, a request whose
\* root declares a namespace and that holds a comment, a request that was
\* signed before, and bytes that are no XML.
PlainDoc == Doc({}, << El("Root", 0), ElText("Data", 1, Str(<< "a" >>)) >>)

CommentedDoc ==
    Doc({"xmlns"}, << El("Root", 0), ElText("#comment", 1, Str(<< "c" >>)),
                      ElText("Data", 1, Str(<< "b" >>)) >>)

SignedBefore ==
    sign(PlainDoc, KeyFile("ok", 1), CertFile("ok", CertText(1))).value

AppDocs == {PlainDoc, CommentedDoc, SignedBefore, Malformed}

\* SOAP envelopes handed to the plugin by suds (prefixes promoted to the
\* root): with a Security header holding one Timestamp (webservice.py line
\* 97), with a comment in the Body, with a BinarySecurityToken of another
\* certificate already in the Security header, without a Security header,
\* with a Security header that holds no Timestamp, and with two Timestamps.
SudsNs == {"SOAP-ENV", "wsse", "wsu"}

EnvelopeOne ==
    Doc(SudsNs, << El("Envelope", 0), El("Header", 1), El("Security", 2),
                   El("Timestamp", 3),
                   ElText("Created", 4, Str(<< "T", ".", "5" >>)),
                   ElText("Expires", 4, Str(<< "U", ".", "5" >>)),
                   El("Body", 1), ElText("Payload", 7, Str(<< "a" >>)) >>)

EnvelopeCommented ==
    Doc(SudsNs, << El("Envelope", 0), El("Header", 1), El("Security", 2),
                   El("Timestamp", 3),
                   ElText("Created", 4, Str(<< "T", "Z" >>)),
                   ElText("Expires", 4, Str(<< "U", "Z" >>)),
                   El("Body", 1), ElText("#comment", 7, Str(<< "c" >>)),
                   ElText("Payload", 7, Str(<< "a" >>)) >>)

EnvelopeToken ==
    Doc(SudsNs, << El("Envelope", 0), El("Header", 1), El("Security", 2),
                   El("Timestamp", 3),
                   ElText("Created", 4, Str(<< "T", "Z" >>)),
                   ElText("Expires", 4, Str(<< "U", "Z" >>)),
                   Node("BinarySecurityToken", 3, 1, -1, "", CertText(2)),
                   El("Body", 1), ElText("Payload", 8, Str(<< "a" >>)) >>)

EnvelopeNone ==
    Doc(SudsNs, << El("Envelope", 0), El("Header", 1),
                   El("Body", 1), ElText("Payload", 3, Str(<< "a" >>)) >>)

EnvelopeBare ==
    Doc(SudsNs, << El("Envelope", 0), El("Header", 1), El("Security", 2),
                   El("Body", 1), ElText("Payload", 4, Str(<< "a" >>)) >>)

EnvelopeTwo ==
    Doc(SudsNs, << El("Envelope", 0), El("Header", 1), El("Security", 2),
                   El("Timestamp", 3),
                   ElText("Created", 4, Str(<< "T", "Z" >>)),
                   ElText("Expires", 4, Str(<< "U", "Z" >>)),
                   El("Timestamp", 3),
                   ElText("Created", 7, Str(<< "T", "Z" >>)),
                   ElText("Expires", 7, Str(<< "U", "Z" >>)),
                   El("Body", 1), ElText("Payload", 10, Str(<< "a" >>)) >>)

Envelopes ==
    {EnvelopeOne, EnvelopeNone, EnvelopeBare, EnvelopeTwo, EnvelopeCommented,
     EnvelopeToken}

\* Documents that arrive from the network: bytes that are no XML, an
\* unsigned document, a signed SOAP response whose wsse and wsu prefixes
\* are declared on the Security header instead of the root, and two
\* documents signed by the holder of key 2 over a SignedInfo of their own
\* making: one without any Reference, and one with two References to the
\* whole document of which only the second carries the document's digest.
ResponseNsBelowRoot ==
    LET signed == sending(EnvelopeOne, KeyFile("ok", 1),
                          CertFile("ok", CertText(1))).value
    IN  Doc({"SOAP-ENV"}, signed.nodes)

\* The document PlainDoc with a Signature over the SignedInfo `info`, made
\* with key 2 and carrying certificate 2.
SignedOver(info) ==
    LET unsigned == Doc({}, AppendChild(PlainDoc.nodes, 1,
                                        SIGNATURE(info, NoText, CertText(2))))
        signed_info == Min(XPathAll(unsigned.nodes, "SignedInfo"))
        signaturevalue ==
            calculate_signature_value(tostring(unsigned, signed_info),
                                      KeyFile("ok", 2), FALSE, TRUE).value
    IN  Doc({}, [unsigned.nodes EXCEPT
                   ![Min(XPathAll(unsigned.nodes, "SignatureValue"))].text =
                       signaturevalue])

ResponseNoReference ==
    SignedOver(<< El("SignedInfo", 0),
                  ElAlg("CanonicalizationMethod", 1, C14NWITHCOMMENTS),
                  ElAlg("SignatureMethod", 1, RSASHA1) >>)

ResponseTwoDigests ==
    SignedOver(<< El("SignedInfo", 0),
                  ElAlg("CanonicalizationMethod", 1, C14NWITHCOMMENTS),
                  ElAlg("SignatureMethod", 1, RSASHA1),
                  Node("Reference", 1, 0, 0, "", NoText),
                  ElAlg("DigestMethod", 4, SHA1),
                  ElText("DigestValue", 4, Str(<< "a" >>)),
                  Node("Reference", 1, 0, 0, "", NoText),
                  ElAlg("DigestMethod", 7, SHA1),
                  ElText("DigestValue", 7,
                         B64Digest(calculate_digest(tostring(PlainDoc, 1),
                                                    FALSE, TRUE))) >>)

ReceivedDocs ==
    {Malformed, PlainDoc, ResponseNsBelowRoot, ResponseNoReference,
     ResponseTwoDigests}

\* The bank's CRL endpoint serves a CRL that revokes certificate 1 or one
\* that revokes certificate 2.
BankCrls == {CrlBytes("crl", {1}), CrlBytes("crl", {2})}

\* ------------------------------------------------------------- tampering
\* First Signature element of a tree (the one validate reads), 0 if none.
FirstSignature(nodes) ==
    IF XPathAll(nodes, "Signature") = {} THEN 0
    ELSE Min(XPathAll(nodes, "Signature"))

\* Node i lies outside the first Signature element and inside an element
\* that a Reference of that Signature covers.
Covered(nodes, i) ==
    LET sig == FirstSignature(nodes)
        refs == {r \in Iter(nodes, sig) : nodes[r].tag = "Reference"}
    IN  /\ sig # 0
        /\ i \notin Iter(nodes, sig)
        /\ \E r \in refs :
              \/ nodes[r].uri = 0
              \/ /\ nodes[r].uri > 0
                 /\ \E j \in 1..Len(nodes) :
                       nodes[j].id = nodes[r].uri /\ i \in Iter(nodes, j)

TamperKinds ==
    {"text", "attr", "sameid", "cert", "drop", "noalg", "nouri", "badb64",
     "nest"}

\* The wsu:Id that the first Reference with a '#id' URI of the first
\* Signature names (0: there is none).
ReferencedId(nodes) ==
    LET sig == FirstSignature(nodes)
        uris == IF sig = 0 THEN {}
                ELSE {nodes[r].uri : r \in {j \in Iter(nodes, sig) :
                                   nodes[j].tag = "Reference" /\ nodes[j].uri > 0}}
    IN  IF uris = {} THEN 0 ELSE Min(uris)

\* Whether the change `kind` applies to node i.
CanTamper(nodes, kind, i) ==
    LET n == nodes[i]
        sig == FirstSignature(nodes)
        outside == sig = 0 \/ i \notin Iter(nodes, sig)
    IN  CASE kind = "text" -> n.text.k = "str" /\ outside
          [] kind = "attr" -> outside /\ n.tag # "#comment"
          [] kind = "sameid" -> /\ outside /\ n.tag # "#comment"
                                /\ ReferencedId(nodes) # 0
                                /\ n.id # ReferencedId(nodes)
          [] kind = "cert" -> n.text.k = "cert"
          [] kind = "drop" -> n.tag \in {"Signature", "SignedInfo",
                                         "SignatureValue", "KeyInfo"}
          [] kind = "noalg" -> n.tag = "CanonicalizationMethod" /\ n.alg # ""
          [] kind = "nouri" -> n.tag = "Reference" /\ n.uri # -1
          [] kind = "badb64" -> n.tag = "SignatureValue"
          [] kind = "nest" -> /\ n.tag = "Signature" /\ n.parent = 1
                              /\ i > 2 /\ End(nodes, 2) = i - 1
                              /\ nodes[2].tag # "#comment"

\* The tree after the change.
TamperNodes(nodes, kind, i) ==
    CASE kind = "text" ->
           [nodes EXCEPT ![i].text = Str(Append(nodes[i].text.s, "x"))]
      [] kind = "attr" -> [nodes EXCEPT ![i].id = 99]
      [] kind = "sameid" -> [nodes EXCEPT ![i].id = ReferencedId(nodes)]
      [] kind = "cert" ->
           [nodes EXCEPT ![i].text = CertText(3 - nodes[i].text.n)]
      [] kind = "drop" -> Remove(nodes, i)
      [] kind = "noalg" -> [nodes EXCEPT ![i].alg = ""]
      [] kind = "nouri" -> [nodes EXCEPT ![i].uri = -1]
      [] kind = "badb64" -> [nodes EXCEPT ![i].text = Str(<< "a" >>)]
      [] kind = "nest" -> [nodes EXCEPT ![i].parent = 2]

\* Two processes run check_revocation_status statement by statement on the
\* shared cache file.  pc is the statement a process is at; renew, r and
\* crl are its local variables; intact tells whether the file is still as
\* the open of this process left it (nothing was written since); during
\* tells whether, when it read the cache file, another process had opened
\* the file for writing and not yet written, the file being as that open
\* left it; ret and exc are what its last call returned or raised.
Procs == {1, 2}

Proc(pc, certificate, renew, r, crl, intact, during, ret, exc) ==
    [pc |-> pc, certificate |-> certificate, renew |-> renew, r |-> r,
     crl |-> crl, intact |-> intact, during |-> during, ret |-> ret,
     exc |-> exc]

IdleProc ==
    Proc("idle", NoText, FALSE, EmptyBytes, EmptyBytes, FALSE, FALSE, "", "")

\* A process is between open(..., 'wb') and f.write(r).
Writing(proc) ==
    proc.pc \in {"urlopen", "write", "urlopen2", "write2"} /\ proc.intact

Return(proc, ret, exc) == [proc EXCEPT !.pc = "done", !.ret = ret, !.exc = exc]

\* ------------------------------------------------------------- idhandler.py
\* A __RequestId object: _value and _date (the day number).
RequestId(value, date) == [value |-> value, date |-> date]

\* date.today() at clock tick t.
today(t) == t \div DayTicks

\* resources/requestid.dat: dir is the state of the directory resources
\* ("present", "absent", or "locked": absent and os.mkdir fails); exists
\* tells whether the file exists, pickled whether it holds a complete
\* pickle (not after open(..., 'wb') and before pickle.dump), obj the
\* pickled object.
IdFile(dir, exists, pickled, obj) ==
    [dir |-> dir, exists |-> exists, pickled |-> pickled, obj |-> obj]

\* A process generating a request header: pc is the statement it is at,
\* obj its request_id object, exc the exception that ended its call.
IdProc(pc, obj, exc) == [pc |-> pc, obj |-> obj, exc |-> exc]

IdleIdProc == IdProc("idle", RequestId(0, 0), "")

\* The request-id file, the processes that use it, the number of headers
\* asked for, the RequestIds handed out so far (date and counter), whether
\* one of them was handed out twice, and the last one with the process
\* that got it.
Ids(file, procs, calls, issued, dup, last, by) ==
    [file |-> file, procs |-> procs, calls |-> calls, issued |-> issued,
     dup |-> dup, last |-> last, by |-> by]

NoIds ==
    Ids(IdFile("present", FALSE, FALSE, RequestId(0, 0)),
        [p \in Procs |-> IdleIdProc], 0, {}, FALSE, RequestId(0, 0), 0)

\* __RequestId.next_value: the object after the call; the value returned
\* is its date followed by its counter.
next_value(obj, t) ==
    IF obj.date # today(t) THEN RequestId(1, today(t))
    ELSE RequestId(obj.value + 1, obj.date)

\* ------------------------------------------------------------------- c2b.py
\* The C2B objects of one process, the payments one object takes, the
\* transactions one payment holds, and the calls of str() in the process.
C2BObjects == {1, 2}

MaxPayments == 2

MaxTransactions == 2

MaxStr == 2

\* A child of the module-level element PAIN: a GrpHdr, n being the text of
\* its NbOfTxs, or a PmtInf, n being the number of its CdtTrfTxInf.
Child(tag, n) == [tag |-> tag, n |-> n]

\* A C2B object: header tells whether group_header was called; payments
\* is _payments, each payment given by the number of its transactions.
C2BObject(header, payments) == [header |-> header, payments |-> payments]

RECURSIVE nb_of_txs(_)
\* Lines 201-205: the transactions of all payments are counted.
nb_of_txs(payments) ==
    IF payments = <<>> THEN 0
    ELSE Head(payments) + nb_of_txs(Tail(payments))

\* _group_header_to_xml: ET.SubElement(PAIN, 'GrpHdr')
group_header_to_xml(PAIN, nb) == Append(PAIN, Child("GrpHdr", nb))

\* _add_SEPA_payment_to_xml: ET.SubElement(PAIN, 'PmtInf') with one
\* CdtTrfTxInf per transaction of the payment.
add_SEPA_payment_to_xml(PAIN, sepa) == Append(PAIN, Child("PmtInf", sepa))

RECURSIVE AddPayments(_, _)
\* Lines 212-213: for payment in self._payments
AddPayments(PAIN, payments) ==
    IF payments = <<>> THEN PAIN
    ELSE AddPayments(add_SEPA_payment_to_xml(PAIN, Head(payments)),
                     Tail(payments))

\* _construct_xml: PAIN as the call leaves it.
construct_xml(PAIN, self) ==
    AddPayments(group_header_to_xml(PAIN, nb_of_txs(self.payments)),
                self.payments)

\* xml_schema.validate for pain.001.001.02: one GrpHdr, then one or more
\* PmtInf, each with one or more CdtTrfTxInf.
SchemaValid(PAIN) ==
    /\ Len(PAIN) >= 2
    /\ PAIN[1].tag = "GrpHdr"
    /\ \A i \in 2..Len(PAIN) : PAIN[i].tag = "PmtInf" /\ PAIN[i].n >= 1

\* What str() of a C2B object did: PAIN as it leaves it, the exception
\* raised ("": none) and the children of pain.001.001.02 in the document
\* rendered.  schema tells whether the schema file could be read: if not,
\* __str__ returns False and str() raises TypeError.
Rendered(PAIN, exc, doc) == [PAIN |-> PAIN, exc |-> exc, doc |-> doc]

C2B_str(self, PAIN, schema) ==
    IF ~schema THEN Rendered(PAIN, "TypeError", <<>>)
    ELSE IF ~self.header THEN Rendered(PAIN, "AttributeError", <<>>)
    ELSE Bind(construct_xml(PAIN, self), LAMBDA xml :
           IF SchemaValid(xml) THEN Rendered(xml, "", xml)
           ELSE Rendered(xml, "ValidationError", xml))

\* The state of the module c2b in a process: PAIN is the list of children
\* of the module-level element, objs the C2B objects, strs the number of
\* calls of str() so far, last the object of the last call (0: none), the
\* object as it was, whether the schema file was read, and what the call
\* did.
C2BState(PAIN, objs, strs, obj, self, schema, ret) ==
    [PAIN |-> PAIN, objs |-> objs, strs |-> strs, obj |-> obj, self |-> self,
     schema |-> schema, ret |-> ret]

NoC2B ==
    C2BState(<<>>, [o \in C2BObjects |-> C2BObject(FALSE, <<>>)], 0, 0,
             C2BObject(FALSE, <<>>), FALSE, Rendered(<<>>, "", <<>>))

\* ------------------------------------------------------------------- state
VARIABLES
    wire,      \* the document in hand: what sign or sending returned, or
               \* what arrived from the network
    origin,    \* where wire comes from, and how it was changed since
    fs,        \* the directory resources and the CRL cache file
    now,       \* the clock
    bankCrl,   \* what the bank's CRL endpoint serves
    out,       \* the last call and what it did
    queue,     \* SignQueue.queue of the queue in use
    procs,     \* the processes that share the CRL cache file
    ids,       \* the request-id file and the processes that share it
    c2b        \* the C2B objects of the process and the shared element PAIN

vars == << wire, origin, fs, now, bankCrl, out, queue, procs, ids, c2b >>

NoFile == FileSystem("present", FALSE, EmptyBytes, 0)

NoValidated == Validated("", "", "", NoCrlCall(NoFile), FALSE, <<>>)

\* op is the function called; exc the exception it raised ("": none); val
\* what validate did; crl what check_revocation_status did; pre the file
\* system before the call; at the time of the call; netUp whether the CRL
\* endpoint answered; call what a caller of validate did; sq the call of
\* a SignQueue method.
Out(op, exc, val, crl, pre, at, netUp) ==
    [op |-> op, exc |-> exc, val |-> val, crl |-> crl, pre |-> pre,
     at |-> at, netUp |-> netUp, call |-> NoCall, sq |-> NoQueueCall]

NoOut == Out("none", "", NoValidated, NoCrlCall(NoFile), NoFile, 0, FALSE)

CallOut(op, exc) ==
    Out(op, exc, NoValidated, NoCrlCall(NoFile), NoFile, 0, FALSE)

Origin(by, input, key, cert, tamper, node, covered) ==
    [by |-> by, input |-> input, key |-> key, cert |-> cert,
     tamper |-> tamper, node |-> node, covered |-> covered]

NoOrigin ==
    Origin("none", Malformed, KeyFile("missing", 0), CertFile("missing", NoText),
           "", 0, FALSE)

InitialFiles ==
    {FileSystem("absent", FALSE, EmptyBytes, 0),
     FileSystem("locked", FALSE, EmptyBytes, 0),
     NoFile}
    \cup {FileSystem("present", TRUE, c, 0) :
            c \in BankCrls \cup {CrlBytes("garbage", {})}}

Init ==
    /\ wire = Malformed
    /\ origin = NoOrigin
    /\ fs \in InitialFiles
    /\ now = 0
    /\ bankCrl \in BankCrls
    /\ out = NoOut
    /\ queue = <<>>
    /\ procs = [p \in Procs |-> IdleProc]
    /\ ids = NoIds
    /\ c2b = NoC2B

\* An application message is signed: signature.sign.
Sign ==
    /\ origin.by = "none"
    /\ \E xml_string \in AppDocs, private_key \in KeyFiles,
          certificate \in CertFiles :
          \E r \in {sign(xml_string, private_key, certificate)} :
             /\ wire' = IF r.exc = "" THEN r.value ELSE wire
             /\ origin' = Origin("sign", xml_string, private_key, certificate,
                                 "", 0, FALSE)
             /\ out' = CallOut("sign", r.exc)
    /\ UNCHANGED << c2b, ids, procs, queue, fs, now, bankCrl >>

\* A SOAP envelope is signed: SignerPlugin.sending.
Sending ==
    /\ origin.by = "none"
    /\ \E envelope \in Envelopes, private_key \in KeyFiles,
          certificate \in CertFiles :
          \E r \in {sending(envelope, private_key, certificate)} :
             /\ wire' = IF r.exc = "" THEN r.value ELSE envelope
             /\ origin' = Origin("sending", envelope, private_key,
                                 certificate, "", 0, FALSE)
             /\ out' = CallOut("sending", r.exc)
    /\ UNCHANGED << c2b, ids, procs, queue, fs, now, bankCrl >>

\* A document arrives from the network.
Receive ==
    /\ origin.by = "none"
    /\ \E xml_string \in ReceivedDocs :
          /\ wire' = xml_string
          /\ origin' = Origin("received", xml_string, NoOrigin.key,
                              NoOrigin.cert, "", 0, FALSE)
    /\ out' = NoOut
    /\ UNCHANGED << c2b, ids, procs, queue, fs, now, bankCrl >>

\* A document is in hand: one arrived, or sign or sending returned one.
InHand ==
    /\ origin.by # "none"
    /\ ~(out.op \in {"sign", "sending", "resending"} /\ out.exc # "")

\* The call is retried: SignerPlugin.sending is applied, with the same key
\* and certificate, to the envelope it has just returned.
Resend ==
    /\ out.op = "sending"
    /\ out.exc = ""
    /\ \E r \in {sending(wire, origin.key, origin.cert)} :
          /\ wire' = IF r.exc = "" THEN r.value ELSE wire
          /\ out' = CallOut("resending", r.exc)
    /\ origin' = [origin EXCEPT !.by = "resending"]
    /\ UNCHANGED << c2b, ids, procs, queue, fs, now, bankCrl >>

\* The document is changed on its way, once.
Tamper ==
    /\ InHand
    /\ wire.ok
    /\ origin.tamper = ""
    /\ \E kind \in TamperKinds, i \in 1..MaxNodes :
          /\ i <= Len(wire.nodes)
          /\ CanTamper(wire.nodes, kind, i)
          /\ wire' = Doc(wire.ns, TamperNodes(wire.nodes, kind, i))
          /\ origin' = [origin EXCEPT !.tamper = kind, !.node = i,
                                      !.covered = Covered(wire.nodes, i)]
    /\ out' = NoOut
    /\ UNCHANGED << c2b, ids, procs, queue, fs, now, bankCrl >>

\* signature.validate is called on the document in hand.
Validate ==
    /\ InHand
    /\ \E netUp \in BOOLEAN :
          \E v \in {validate(wire, fs, now, netUp, bankCrl)} :
             /\ out' = Out("validate", v.exc, v, v.crl, fs, now, netUp)
             /\ fs' = v.crl.fs
    /\ UNCHANGED << c2b, ids, procs, queue, wire, origin, now, bankCrl >>

\* A response document is handed to ApplicationResponse(...).
NewApplicationResponse ==
    /\ InHand
    /\ \E valid \in BOOLEAN, responsecode \in ResponseCodes,
          netUp \in BOOLEAN :
          \E c \in {ApplicationResponse(wire, valid, responsecode, fs, now,
                                        netUp, bankCrl)} :
             /\ out' = [Out("ApplicationResponse", c.exc, c.val, c.val.crl,
                            fs, now, netUp) EXCEPT !.call = c]
             /\ fs' = c.val.crl.fs
    /\ UNCHANGED << c2b, ids, procs, queue, wire, origin, now, bankCrl >>

\* A response document is handed to CertificateResponse(...).
NewCertificateResponse ==
    /\ InHand
    /\ \E valid \in BOOLEAN, responsecode \in ResponseCodes,
          netUp \in BOOLEAN :
          \E c \in {CertificateResponse(wire, valid, responsecode, fs, now,
                                        netUp, bankCrl)} :
             /\ out' = [Out("CertificateResponse", c.exc, c.val, c.val.crl,
                            fs, now, netUp) EXCEPT !.call = c]
             /\ fs' = c.val.crl.fs
    /\ UNCHANGED << c2b, ids, procs, queue, wire, origin, now, bankCrl >>

\* suds hands a reply to SignerPlugin.received.
Received ==
    /\ InHand
    /\ \E netUp \in BOOLEAN :
          \E c \in {received(wire, fs, now, netUp, bankCrl)} :
             /\ out' = [Out("received", c.exc, c.val, c.val.crl, fs, now,
                            netUp) EXCEPT !.call = c]
             /\ fs' = c.val.crl.fs
    /\ UNCHANGED << c2b, ids, procs, queue, wire, origin, now, bankCrl >>

\* WebService._parse_response is called on a reply whose
\* ApplicationResponse field decodes to the document in hand.
ParseResponse ==
    /\ InHand
    /\ \E decodable \in BOOLEAN, code \in ResponseCodes, valid \in BOOLEAN,
          responsecode \in ResponseCodes, netUp \in BOOLEAN :
          \E c \in {parse_response(wire, decodable, code, valid,
                                   responsecode, fs, now, netUp, bankCrl)} :
             /\ out' = [Out("parse_response", c.exc, c.val, c.val.crl, fs,
                            now, netUp) EXCEPT !.call = c]
             /\ fs' = c.val.crl.fs
    /\ UNCHANGED << c2b, ids, procs, queue, wire, origin, now, bankCrl >>

\* certificate.check_revocation_status is called on a DER certificate.
CheckRevocationStatus ==
    /\ \E certificate \in {CertText(1), CertText(2)}, netUp \in BOOLEAN :
          \E r \in {check_revocation_status(certificate, fs, now, netUp,
                                            bankCrl)} :
             /\ out' = Out("check_revocation_status", r.exc, NoValidated, r,
                           fs, now, netUp)
             /\ fs' = r.fs
    /\ UNCHANGED << c2b, ids, procs, queue, wire, origin, now, bankCrl >>

\* Time passes.
Tick ==
    /\ now < MaxTime
    /\ now' = now + 1
    /\ UNCHANGED << c2b, ids, procs, queue, wire, origin, fs, bankCrl, out >>

\* SignQueue.mark on one of the first elements of the document.
Mark ==
    /\ wire.ok
    /\ get_unique_id(wire.nodes) <= MaxIds
    /\ \E element \in 1..QueueElements :
          /\ element <= Len(wire.nodes)
          /\ \E m \in {mark(wire.nodes, queue, element)} :
                /\ wire' = Doc(wire.ns, m.nodes)
                /\ queue' = m.queue
                /\ out' = [CallOut("mark", "") EXCEPT
                             !.sq = QueueCall(element, m.ret, queue, wire.nodes)]
    /\ UNCHANGED << c2b, ids, procs, origin, fs, now, bankCrl >>

\* SignQueue.push_and_mark on one of the first elements of the document.
PushAndMark ==
    /\ wire.ok
    /\ get_unique_id(wire.nodes) <= MaxIds
    /\ \E element \in 1..QueueElements :
          /\ element <= Len(wire.nodes)
          /\ \E m \in {push_and_mark(wire.nodes, queue, element)} :
                /\ wire' = Doc(wire.ns, m.nodes)
                /\ queue' = m.queue
                /\ out' = [CallOut("push_and_mark", "") EXCEPT
                             !.sq = QueueCall(element, m.ret, queue, wire.nodes)]
    /\ UNCHANGED << c2b, ids, procs, origin, fs, now, bankCrl >>

\* SignQueue.insert_references with one of the first elements of the
\* document as signed_info.
InsertReferences ==
    /\ wire.ok
    /\ Len(wire.nodes) + 5 * Len(queue) <= QueueNodes
    /\ \E signed_info \in 1..QueueElements :
          /\ signed_info <= Len(wire.nodes)
          /\ wire' = Doc(wire.ns,
                         insert_references(wire.nodes, signed_info, queue))
          /\ out' = [CallOut("insert_references", "") EXCEPT
                       !.sq = QueueCall(signed_info, 0, queue, wire.nodes)]
    /\ UNCHANGED << c2b, ids, procs, queue, origin, fs, now, bankCrl >>

\* Signing, transport and validation of one document.
Next ==
    \/ Sign
    \/ Sending
    \/ Receive
    \/ Tamper
    \/ Validate
    \/ Resend

Spec == Init /\ [][Next]_vars

\* Signed and received documents handed to the callers of validate.
NextCallers ==
    \/ Sign
    \/ Sending
    \/ Receive
    \/ NewApplicationResponse
    \/ NewCertificateResponse
    \/ Received
    \/ ParseResponse

SpecCallers == Init /\ [][NextCallers]_vars

\* A SignQueue alone, on an envelope as suds hands it over.
InitQueue ==
    /\ wire \in Envelopes
    /\ origin = NoOrigin
    /\ fs = NoFile
    /\ now = 0
    /\ bankCrl = CrlBytes("crl", {1})
    /\ out = NoOut
    /\ queue = <<>>
    /\ procs = [p \in Procs |-> IdleProc]
    /\ ids = NoIds
    /\ c2b = NoC2B

NextQueue ==
    \/ Mark
    \/ PushAndMark
    \/ InsertReferences

SpecQueue == InitQueue /\ [][NextQueue]_vars

\* A process calls check_revocation_status(certificate).
Call ==
    /\ \E p \in Procs, certificate \in {CertText(1), CertText(2)} :
          /\ procs[p].pc \in {"idle", "done"}
          /\ procs' = [procs EXCEPT ![p] =
                         [IdleProc EXCEPT !.pc = "isfile",
                                          !.certificate = certificate]]
    /\ UNCHANGED << c2b, ids, wire, origin, fs, now, bankCrl, out, queue >>

\* Lines 36-43: os.path.isfile, os.path.getmtime, difference.days > 0.
IsFile ==
    /\ \E p \in Procs :
          /\ procs[p].pc = "isfile"
          /\ procs' = [procs EXCEPT ![p].renew = Renew(fs, now),
                                    ![p].pc = IF Renew(fs, now) THEN "open"
                                              ELSE "read"]
    /\ UNCHANGED << c2b, ids, wire, origin, fs, now, bankCrl, out, queue >>

\* An open that creates the file when it is missing and keeps the content
\* of an existing file until the new one is written.
OpenKept(file, at) ==
    IF file.exists THEN file
    ELSE [file EXCEPT !.exists = TRUE, !.mtime = at, !.content = EmptyBytes]

\* open('resources/OP-Pohjola-ws.crl', 'wb') with an existing directory:
\* the file is created or truncated.
OpenTruncated(file, at) ==
    [file EXCEPT !.exists = TRUE, !.mtime = at, !.content = EmptyBytes]

\* Line 48: open(..., 'wb'); EnvironmentError when the directory is
\* missing.
Open ==
    /\ \E p \in Procs :
          /\ procs[p].pc = "open"
          /\ IF fs.dir = "present"
             THEN /\ fs' = OpenTruncated(fs, now)
                  /\ procs' = [procs EXCEPT ![p].pc = "urlopen",
                                            ![p].intact = TRUE]
             ELSE /\ fs' = fs
                  /\ procs' = [procs EXCEPT ![p].pc = "mkdir"]
    /\ UNCHANGED << c2b, ids, wire, origin, now, bankCrl, out, queue >>

\* Line 49: r = request.urlopen(url).read(); on URLError the file is
\* closed as it is and, since it exists, the call goes on to read it.
UrlOpen ==
    /\ \E p \in Procs, netUp \in BOOLEAN :
          /\ procs[p].pc = "urlopen"
          /\ procs' = [procs EXCEPT ![p] =
                         IF netUp
                         THEN [procs[p] EXCEPT !.r = bankCrl, !.pc = "write"]
                         ELSE IF ~fs.exists THEN Return(procs[p], "False", "")
                         ELSE [procs[p] EXCEPT !.pc = "read"]]
    /\ UNCHANGED << c2b, ids, wire, origin, fs, now, bankCrl, out, queue >>

\* Line 50 and the end of the with block: f.write(r), f.close().
Write ==
    /\ \E p \in Procs :
          /\ procs[p].pc \in {"write", "write2"}
          /\ fs' = [fs EXCEPT !.exists = TRUE, !.mtime = now,
                              !.content = procs[p].r]
          /\ procs' = [q \in Procs |->
                         IF q = p THEN [procs[p] EXCEPT !.pc = "read"]
                         ELSE [procs[q] EXCEPT !.intact = FALSE]]
    /\ UNCHANGED << c2b, ids, wire, origin, now, bankCrl, out, queue >>

\* Lines 58-79: the handler of EnvironmentError.  os.mkdir, then the
\* second open; when the directory exists by now the call goes on to read.
MkDir ==
    /\ \E p \in Procs :
          /\ procs[p].pc = "mkdir"
          /\ IF fs.dir = "present"
             THEN /\ fs' = fs
                  /\ procs' = [procs EXCEPT ![p].pc = "read"]
             ELSE IF fs.dir = "locked"
             THEN /\ fs' = fs
                  /\ procs' = [procs EXCEPT ![p] = Return(procs[p], "False", "")]
             ELSE /\ fs' = OpenTruncated([fs EXCEPT !.dir = "present"], now)
                  /\ procs' = [procs EXCEPT ![p].pc = "urlopen2",
                                            ![p].intact = TRUE]
    /\ UNCHANGED << c2b, ids, wire, origin, now, bankCrl, out, queue >>

\* Line 71: the download inside the handler; URLError is an
\* EnvironmentError there and makes the call return False.
UrlOpen2 ==
    /\ \E p \in Procs, netUp \in BOOLEAN :
          /\ procs[p].pc = "urlopen2"
          /\ procs' = [procs EXCEPT ![p] =
                         IF netUp
                         THEN [procs[p] EXCEPT !.r = bankCrl, !.pc = "write2"]
                         ELSE Return(procs[p], "False", "")]
    /\ UNCHANGED << c2b, ids, wire, origin, fs, now, bankCrl, out, queue >>

\* Lines 81-95: the cache file is read and the certificate looked up.
Read ==
    /\ \E p \in Procs :
          /\ procs[p].pc = "read"
          /\ \E res \in {LookupRevoked(procs[p].certificate, fs, procs[p].renew)} :
                procs' = [procs EXCEPT ![p] =
                            [Return(procs[p], res.ret, res.exc) EXCEPT
                               !.crl = IF fs.exists THEN fs.content
                                       ELSE EmptyBytes,
                               !.during = \E q \in Procs \ {p} :
                                             Writing(procs[q])]]
    /\ UNCHANGED << c2b, ids, wire, origin, fs, now, bankCrl, out, queue >>

\* Processes that share the CRL cache file, as time passes.
InitRace ==
    /\ wire = Malformed
    /\ origin = NoOrigin
    /\ fs \in InitialFiles
    /\ now = 0
    /\ bankCrl \in BankCrls
    /\ out = NoOut
    /\ queue = <<>>
    /\ procs = [p \in Procs |-> IdleProc]
    /\ ids = NoIds
    /\ c2b = NoC2B

NextRace ==
    \/ Call
    \/ IsFile
    \/ Open
    \/ UrlOpen
    \/ Write
    \/ MkDir
    \/ UrlOpen2
    \/ Read
    \/ Tick

SpecRace == InitRace /\ [][NextRace]_vars

\* idhandler.get_object (lines 40-51), first statement of
\* _generate_request_header and of generate_header.  A missing file gives
\* a new object; a file without a complete pickle makes pickle.load raise
\* EOFError, which get_object does not catch.
GetObject ==
    /\ ids.calls < MaxRequests
    /\ \E p \in Procs :
          /\ ids.procs[p].pc \in {"idle", "done"}
          /\ ids' = [ids EXCEPT
                       !.calls = @ + 1,
                       !.procs[p] =
                          IF ~ids.file.exists
                          THEN IdProc("next_value", RequestId(0, today(now)), "")
                          ELSE IF ~ids.file.pickled
                          THEN IdProc("done", RequestId(0, 0), "EOFError")
                          ELSE IdProc("next_value", ids.file.obj, "")]
    /\ UNCHANGED << c2b, wire, origin, fs, now, bankCrl, out, queue, procs >>

\* request_header.RequestId = request_id.next_value()
NextValue ==
    /\ \E p \in Procs :
          /\ ids.procs[p].pc = "next_value"
          /\ \E obj \in {next_value(ids.procs[p].obj, now)} :
                ids' = [ids EXCEPT
                          !.procs[p] = IdProc("save", obj, ""),
                          !.issued = @ \cup {obj},
                          !.dup = @ \/ obj \in ids.issued,
                          !.last = obj,
                          !.by = p]
    /\ UNCHANGED << c2b, wire, origin, fs, now, bankCrl, out, queue, procs >>

\* idhandler.save_object, line 61: open(..., 'wb') creates or truncates the
\* file; lines 63-78 when the directory is missing: os.mkdir, second open.
SaveOpen ==
    /\ \E p \in Procs :
          /\ ids.procs[p].pc = "save"
          /\ ids' = IF ids.file.dir = "locked"
                    THEN [ids EXCEPT !.procs[p].pc = "done"]
                    ELSE [ids EXCEPT !.procs[p].pc = "dump",
                                     !.file.dir = "present",
                                     !.file.exists = TRUE,
                                     !.file.pickled = FALSE]
    /\ UNCHANGED << c2b, wire, origin, fs, now, bankCrl, out, queue, procs >>

\* pickle.dump(obj, idfile) and the end of the with block.
SaveDump ==
    /\ \E p \in Procs :
          /\ ids.procs[p].pc = "dump"
          /\ ids' = [ids EXCEPT !.procs[p].pc = "done",
                                !.file.exists = TRUE,
                                !.file.pickled = TRUE,
                                !.file.obj = ids.procs[p].obj]
    /\ UNCHANGED << c2b, wire, origin, fs, now, bankCrl, out, queue, procs >>

\* Processes that generate request headers, as time passes.
InitIds ==
    /\ wire = Malformed
    /\ origin = NoOrigin
    /\ fs = NoFile
    /\ now = 0
    /\ bankCrl = CrlBytes("crl", {1})
    /\ out = NoOut
    /\ queue = <<>>
    /\ procs = [p \in Procs |-> IdleProc]
    /\ ids \in {[NoIds EXCEPT !.file.dir = dir] :
                  dir \in {"present", "absent", "locked"}}
    /\ c2b = NoC2B

NextIds ==
    \/ GetObject
    \/ NextValue
    \/ SaveOpen
    \/ SaveDump
    \/ Tick

SpecIds == InitIds /\ [][NextIds]_vars

\* ------------------------------------------------------- rendering C2B
\* C2B.group_header on one of the objects.
GroupHeader ==
    /\ \E o \in C2BObjects :
          /\ ~c2b.objs[o].header
          /\ c2b' = [c2b EXCEPT !.objs[o].header = TRUE]
    /\ UNCHANGED << ids, procs, queue, wire, origin, fs, now, bankCrl, out >>

\* C2B.add_SEPA_payment with a payment of some transactions.
AddSEPAPayment ==
    /\ \E o \in C2BObjects, sepa \in 1..MaxTransactions :
          /\ Len(c2b.objs[o].payments) < MaxPayments
          /\ c2b' = [c2b EXCEPT !.objs[o].payments = Append(@, sepa)]
    /\ UNCHANGED << ids, procs, queue, wire, origin, fs, now, bankCrl, out >>

\* str() of one of the objects.
StrC2B ==
    /\ c2b.strs < MaxStr
    /\ \E o \in C2BObjects, schema \in BOOLEAN :
          \E r \in {C2B_str(c2b.objs[o], c2b.PAIN, schema)} :
             c2b' = C2BState(r.PAIN, c2b.objs, c2b.strs + 1, o, c2b.objs[o],
                             schema, r)
    /\ UNCHANGED << ids, procs, queue, wire, origin, fs, now, bankCrl, out >>

InitC2B ==
    /\ wire = Malformed
    /\ origin = NoOrigin
    /\ fs = NoFile
    /\ now = 0
    /\ bankCrl = CrlBytes("crl", {1})
    /\ out = NoOut
    /\ queue = <<>>
    /\ procs = [p \in Procs |-> IdleProc]
    /\ ids = NoIds
    /\ c2b = NoC2B

NextC2B ==
    \/ GroupHeader
    \/ AddSEPAPayment
    \/ StrC2B

SpecC2B == InitC2B /\ [][NextC2B]_vars

\* The revocation checker alone, called again and again as time passes.
NextCrl ==
    \/ CheckRevocationStatus
    \/ Tick

SpecCrl == Init /\ [][NextCrl]_vars

\* ================================================================== claims
\* The document in hand was produced by sign or by SignerPlugin.sending
\* with a private key and the certificate of that key.
FreshlySigned ==
    /\ origin.by \in {"sign", "sending"}
    /\ Matching(origin.key, origin.cert)

\* The CRL cache as it was before the last call: present, a well-formed
\* CRL, and younger than 24 hours.
CacheFreshBefore ==
    /\ out.pre.dir = "present"
    /\ out.pre.exists
    /\ out.pre.content.k = "crl"
    /\ out.at - out.pre.mtime < DayTicks

\* C1: round trip.  Whenever validate is called on what sign or
\* SignerPlugin.sending returned for a matching key and certificate, and
\* the document was not changed in between, validate returns True.  Stated
\* here for the case most favourable to the claim: a fresh, well-formed
\* CRL cache that does not revoke the signer's certificate.
C1_RoundTrip ==
    (/\ out.op = "validate"
     /\ FreshlySigned
     /\ origin.tamper = ""
     /\ CacheFreshBefore
     /\ origin.cert.content.n \notin out.pre.content.revoked)
    => out.val.ret = "True"

\* C2: tamper detection.  After signing, a change of the text or of an
\* attribute of an element (not of a comment) that a Reference covers and
\* that lies outside the Signature element makes validate return False.
C2_TamperDetected ==
    (/\ out.op = "validate"
     /\ origin.by \in {"sign", "sending"}
     /\ origin.tamper \in {"text", "attr"}
     /\ origin.covered
     /\ wire.nodes[origin.node].tag # "#comment")
    => out.val.ret = "False"

\* A validly signed plain request whose Data text was changed was rejected
\* at the digest comparison.
C2_Witness ==
    /\ out.op = "validate"
    /\ origin.by = "sign"
    /\ origin.input = PlainDoc
    /\ Matching(origin.key, origin.cert)
    /\ origin.tamper = "text"
    /\ origin.covered
    /\ out.val.ret = "False"
    /\ out.val.step = "digest"

\* C3: revocation.  When the serial number of the certificate extracted
\* from the document is among the revoked serial numbers of the CRL that
\* check_revocation_status loaded, validate returns False.
C3_RevokedRejected ==
    (/\ out.op = "validate"
     /\ out.crl.called
     /\ out.crl.read
     /\ out.crl.fs.content.k = "crl"
     /\ get_certificate(wire).exc = ""
     /\ get_certificate(wire).value.k = "cert"
     /\ get_certificate(wire).value.n \in out.crl.fs.content.revoked)
    => out.val.ret = "False"

\* C4: validate never raises: every call returns True or False.
C4_NeverRaises ==
    out.op = "validate" => out.val.ret \in {"True", "False"}

\* The first Signature element of the document in hand has no descendant
\* of that name.
SignatureLacks(tag) ==
    /\ FirstSignature(wire.nodes) # 0
    /\ \A i \in Iter(wire.nodes, FirstSignature(wire.nodes)) :
          wire.nodes[i].tag # tag

\* C5: unsigned documents are rejected.  validate returns False for a
\* document without a Signature element and for one whose Signature lacks a
\* SignedInfo, a SignatureValue or an extractable certificate, and in these
\* cases neither consults the CRL nor verifies a signature.
C5_UnsignedRejected ==
    (/\ out.op = "validate"
     /\ wire.ok
     /\ \/ FirstSignature(wire.nodes) = 0
        \/ SignatureLacks("SignedInfo")
        \/ SignatureLacks("SignatureValue")
        \/ /\ get_certificate(wire).exc = ""
           /\ get_certificate(wire).value = NoText)
    => /\ out.val.ret = "False"
       /\ ~out.crl.called
       /\ ~out.val.verified

\* The document was validly signed and validates as long as it is not
\* changed: a request without an earlier Signature, or the envelope with
\* one Timestamp.
ValidlySigned ==
    /\ FreshlySigned
    /\ origin.input \in {PlainDoc, CommentedDoc, EnvelopeOne}

\* C6: certificate substitution.  When the certificate embedded in a
\* validly signed document is replaced by another well-formed certificate,
\* whose key did not produce SignatureValue, validate returns False.
C6_SubstitutionRejected ==
    (/\ out.op = "validate"
     /\ ValidlySigned
     /\ origin.tamper = "cert")
    => out.val.ret = "False"

\* C7: fallback to the previous cache.  When the cache file exists, holds
\* a CRL and is 24 hours old or older, and the download fails, the cache
\* file still holds that CRL after the call and the lookup was answered
\* from it.
C7_StaleFallback ==
    (/\ out.op = "check_revocation_status"
     /\ out.pre.exists
     /\ out.pre.content.k = "crl"
     /\ out.at - out.pre.mtime >= DayTicks
     /\ ~out.netUp)
    => /\ out.crl.fs.content = out.pre.content
       /\ out.crl.read
       /\ out.crl.ret \in {"True", "False"}

\* C8: fail-open without a cache.  When the cache file is absent before
\* the call and the download fails, check_revocation_status returns False.
C8_NoCacheFailOpen ==
    (/\ out.op = "check_revocation_status"
     /\ ~out.pre.exists
     /\ ~out.netUp)
    => out.crl.ret = "False"

\* C9: the cache is refreshed at most daily.  check_revocation_status
\* attempts a download, and writes the cache file, only when the file is
\* missing or was modified 24 hours ago or earlier; with a cache younger
\* than 24 hours it attempts no download and leaves the file as it is.
C9_RefreshAtMostDaily ==
    out.op = "check_revocation_status" =>
        LET missing == ~out.pre.exists
            old == out.at - out.pre.mtime >= DayTicks
        IN  /\ out.crl.download => missing \/ old
            /\ out.crl.fs # out.pre => missing \/ old
            /\ (~missing /\ ~old) => ~out.crl.download /\ out.crl.fs = out.pre

\* A cache of 24 hours or more was refreshed, and afterwards a call on the
\* refreshed cache went without a download.
C9_Witness ==
    /\ out.op = "check_revocation_status"
    /\ out.pre.exists
    /\ out.pre.mtime > 0
    /\ out.at - out.pre.mtime < DayTicks
    /\ ~out.crl.download
    /\ out.crl.fs = out.pre

\* C10: sign aborts as a whole.  Malformed input raises RuntimeError, a
\* missing private-key file IOError, a private key in an unsupported format
\* ValueError and a missing certificate file IOError, and a call that
\* raised has returned no document.
C10_SignAborts ==
    out.op = "sign" =>
        /\ ~origin.input.ok => out.exc = "RuntimeError"
        /\ (origin.input.ok /\ origin.key.state = "missing")
              => out.exc = "IOError"
        /\ (origin.input.ok /\ origin.key.state = "badformat")
              => out.exc = "ValueError"
        /\ (origin.input.ok /\ origin.key.state = "ok"
                            /\ origin.cert.state = "missing")
              => out.exc = "IOError"
        /\ out.exc # "" => wire = Malformed
        /\ out.exc = "" => wire.ok /\ FirstSignature(wire.nodes) # 0

\* sign was called with a well-formed request and a good key, the
\* certificate file was missing, and the call raised IOError.
C10_Witness ==
    /\ out.op = "sign"
    /\ origin.input = PlainDoc
    /\ origin.key.state = "ok"
    /\ origin.cert.state = "missing"
    /\ out.exc = "IOError"
    /\ wire = Malformed

\* The Signature element that sign appended: the last Signature child of
\* the root of the document in hand.
OwnSignature ==
    Max({i \in XPathAll(wire.nodes, "Signature") : wire.nodes[i].parent = 1})

SignedReferences ==
    {r \in Iter(wire.nodes, FirstSignature(wire.nodes)) :
        /\ wire.nodes[r].tag = "Reference"
        /\ wire.nodes[wire.nodes[r].parent].tag = "SignedInfo"}

\* The DigestValue of Reference r holds a digest.
DigestFilled(r) ==
    \E d \in XPathChildren(wire.nodes, r, "DigestValue") :
       wire.nodes[d].text.k = "digest"

\* C12: WS-Security profile.  The SignedInfo of an envelope that
\* SignerPlugin.sending returned holds exactly two References, one to the
\* Body and one to a Timestamp, each with a DigestValue that is filled in.
C12_TwoReferences ==
    (out.op = "sending" /\ out.exc = "") =>
        LET nodes == wire.nodes
            Refers(tag) == {r \in SignedReferences :
                              \E i \in XPathAll(nodes, tag) :
                                 nodes[i].id > 0 /\ nodes[i].id = nodes[r].uri}
        IN  /\ Cardinality(SignedReferences) = 2
            /\ Cardinality(Refers("Body")) = 1
            /\ Cardinality(Refers("Timestamp")) = 1
            /\ \A r \in SignedReferences : DigestFilled(r)

\* The Timestamp that get_signature digests: the first Timestamp child of
\* the first Security child of the Header of the document in hand.
SignedTimestamp ==
    FirstChild(wire.nodes,
               FirstChild(wire.nodes, FirstChild(wire.nodes, 1, "Header"),
                          "Security"),
               "Timestamp")

\* C13: timestamp truncation precedes signing.  In an envelope that
\* SignerPlugin.sending returned, the Created and Expires texts of the
\* signed Timestamp have no fraction of a second, the DigestValue of the
\* Reference to that Timestamp is the digest of the Timestamp as it stands
\* in the envelope, with the rewritten texts, and SignatureValue is the
\* signature over the SignedInfo that holds this digest.
C13_TruncationBeforeDigest ==
    (out.op = "sending" /\ out.exc = "") =>
        LET nodes == wire.nodes
            ts == SignedTimestamp
            si == Min(XPathAll(nodes, "SignedInfo"))
            sv == Min(XPathAll(nodes, "SignatureValue"))
            Canon(i) == [ns |-> {}, nodes |-> Subtree(nodes, i)]
        IN  /\ \A i \in XPathChildren(nodes, ts, "Created")
                        \cup XPathChildren(nodes, ts, "Expires") :
                  /\ nodes[i].text.k = "str"
                  /\ \A j \in 1..Len(nodes[i].text.s) : nodes[i].text.s[j] # "."
                  /\ nodes[i].text.s[Len(nodes[i].text.s)] = "Z"
            /\ \E r \in SignedReferences :
                  /\ nodes[r].uri = nodes[ts].id
                  /\ \E d \in XPathChildren(nodes, r, "DigestValue") :
                        nodes[d].text = Text("digest", <<>>, 0, Canon(ts))
            /\ nodes[sv].text = Text("sig", <<>>, origin.key.key, Canon(si))

\* sending returned the signed form of the envelope whose Created text
\* had a fraction of a second, and the text in the envelope is not the
\* text that was handed in.
C13_Witness ==
    /\ out.op = "sending"
    /\ out.exc = ""
    /\ origin.input = EnvelopeOne
    /\ \E i \in XPathAll(wire.nodes, "Created") :
          /\ wire.nodes[i].text = Str(<< "T", "Z" >>)
          /\ \E j \in XPathAll(origin.input.nodes, "Created") :
                origin.input.nodes[j].text = Str(<< "T", ".", "5" >>)


\* C14: validate never mutates what it validates.  When a call of validate
\* on a well-formed document ends, whatever it returned or raised, the
\* parsed tree it worked on is the tree parsed from the input, Signature
\* element included.
C14_TreeUntouched ==
    (out.op = "validate" /\ wire.ok) => out.val.tree = wire.nodes


\* The digest loop of validate (lines 127-144) run on the document in hand:
\* "none" when the document has no Signature or no CanonicalizationMethod
\* with an Algorithm.
DigestsInHand ==
    IF ~wire.ok \/ XPathAll(wire.nodes, "Signature") = {}
       \/ \A i \in XPathAll(wire.nodes, "CanonicalizationMethod") :
             wire.nodes[i].alg = ""
    THEN "none"
    ELSE LET nodes == wire.nodes
             signature == FirstSignature(nodes)
             alg == nodes[Min({i \in XPathAll(nodes, "CanonicalizationMethod") :
                                 nodes[i].alg # ""})].alg
             keys == DigestKeys(nodes, signature)
         IN  DigestLoop(keys,
                        [k \in 1..Len(keys) |->
                           DigestValueOf(nodes, signature, keys[k])],
                        1, wire, signature, Contains(alg, "xml-exc-c14n#"),
                        Contains(alg, "#WithComments")).res

\* C15: no partial trust and a fixed order of steps in validate.  The
\* revocation list is consulted only after every reference digest was
\* recomputed and found equal; the signature is verified only after the
\* revocation check answered "not revoked"; and a call that met a digest
\* mismatch returned False without a call of check_revocation_status,
\* without a change of the CRL cache and without a call of verify.
C15_StepOrder ==
    out.op = "validate" =>
        /\ out.val.crl.called => DigestsInHand = "ok"
        /\ out.val.verified =>
              out.val.crl.called /\ out.val.crl.ret = "False"
        /\ (out.val.step = "digest" /\ DigestsInHand = "False") =>
              /\ out.val.ret = "False"
              /\ ~out.val.crl.called
              /\ ~out.val.crl.download
              /\ ~out.val.verified
              /\ fs = out.pre

\* validate met a digest mismatch in a tampered signed document at a time
\* when a revocation check would have downloaded the list.
C15_Witness ==
    /\ out.op = "validate"
    /\ FreshlySigned
    /\ origin.tamper # ""
    /\ out.val.step = "digest"
    /\ DigestsInHand = "False"
    /\ out.val.ret = "False"
    /\ Renew(out.pre, out.at)
    /\ out.netUp


\* C16: callers proceed only when validate returned True.  Whenever the
\* call of validate made by a caller returned False, the
\* ApplicationResponse and the CertificateResponse constructor raised
\* ValueError before reading any field, SignerPlugin.received raised
\* RuntimeError, and _parse_response raised and returned no
\* ApplicationResponse, whatever the ResponseCode of the header.
C16_CallersFailClosed ==
    out.call.val.ret = "False" =>
        /\ out.op \in {"ApplicationResponse", "CertificateResponse"} =>
              /\ out.call.exc = "ValueError"
              /\ ~out.call.parsed
              /\ out.call.value = NoValue
        /\ out.op = "received" => out.call.exc = "RuntimeError"
        /\ out.op = "parse_response" =>
              /\ out.call.exc # ""
              /\ out.call.value = NoValue

\* _parse_response was called with header ResponseCode "12" on a document
\* that validate rejected, and it raised.
C16_Witness ==
    /\ out.op = "parse_response"
    /\ out.call.code = "12"
    /\ out.call.val.ret = "False"
    /\ out.call.exc = "UnboundLocalError"


\* The identifiers in use before the last SignQueue call: the wsu:Id
\* attributes and the URIs of the tree, and the queued ones.
IdsBefore ==
    {out.sq.nodes[i].id : i \in 1..Len(out.sq.nodes)}
        \cup {out.sq.nodes[i].uri : i \in 1..Len(out.sq.nodes)}
        \cup {out.sq.queue[k] : k \in 1..Len(out.sq.queue)}

\* C17: push_and_mark(element) sets an identifier that was not in use on
\* the element, appends that identifier to the end of the queue and
\* returns it; mark(element) sets and returns such an identifier and
\* leaves the queue as it was.  Nothing else in the tree changes.
C17_MarkAndPush ==
    LET element == out.sq.element
        id == wire.nodes[element].id
        Set == /\ id \notin IdsBefore
               /\ wire.nodes = [out.sq.nodes EXCEPT ![element].id = id]
    IN  /\ out.op = "push_and_mark" =>
              /\ Set
              /\ queue = Append(out.sq.queue, id)
              /\ out.sq.ret = id
        /\ out.op = "mark" =>
              /\ Set
              /\ queue = out.sq.queue
              /\ out.sq.ret = id


\* C18: insert_references emits exactly one Reference per queued
\* identifier, in queue order, as the last children of the element it is
\* given, each with URI '#' + identifier, a Transforms child holding one
\* C14N Transform, the SHA-1 DigestMethod and a DigestValue without text;
\* it emits nothing else (nothing for identifiers that were only marked),
\* leaves the rest of the tree as it was and does not change the queue.
C18_OneReferencePerQueuedId ==
    out.op = "insert_references" =>
        LET before == out.sq.nodes
            signed_info == out.sq.element
            n == Len(out.sq.queue)
            pos == End(before, signed_info)
            nodes == wire.nodes
        IN  /\ queue = out.sq.queue
            /\ Len(nodes) = Len(before) + 5 * n
            /\ \A k \in 1..pos : nodes[k] = before[k]
            /\ \A k \in (pos + 1)..Len(before) :
                  nodes[k + 5 * n] =
                      [before[k] EXCEPT !.parent =
                          IF before[k].parent > pos
                          THEN before[k].parent + 5 * n
                          ELSE before[k].parent]
            /\ \A j \in 1..n :
                  LET r == pos + 5 * (j - 1) + 1
                  IN  /\ nodes[r] = Node("Reference", signed_info, 0,
                                         out.sq.queue[j], "", NoText)
                      /\ nodes[r + 1] = El("Transforms", r)
                      /\ nodes[r + 2] = ElAlg("Transform", r + 1, C14N)
                      /\ nodes[r + 3] = ElAlg("DigestMethod", r, SHA1)
                      /\ nodes[r + 4] = El("DigestValue", r)
            /\ Cardinality(XPathAll(nodes, "Reference"))
                  = Cardinality(XPathAll(before, "Reference")) + n

\* insert_references was called with two identifiers in the queue while
\* a third element of the tree carried an identifier that was only marked.
C18_Witness ==
    /\ out.op = "insert_references"
    /\ Len(out.sq.queue) = 2
    /\ out.sq.queue[1] # out.sq.queue[2]
    /\ \E i \in 1..Len(out.sq.nodes) :
          /\ out.sq.nodes[i].id > 0
          /\ \A k \in 1..Len(out.sq.queue) :
                out.sq.nodes[i].id # out.sq.queue[k]
    /\ Cardinality(XPathAll(wire.nodes, "Reference")) = 2


\* C19: signer and verifier use the same canonicalization profile.  In a
\* document that sign or SignerPlugin.sending returned, the mode that
\* validate derives from the declared CanonicalizationMethod is the mode of
\* the profile (sign: inclusive with comments; sending: exclusive without
\* comments), and it is the mode the signer used: every DigestValue the
\* signer filled in is the digest of the referenced element canonicalized
\* in that mode, and SignatureValue is the signature over SignedInfo
\* canonicalized in that mode.
C19_SameCanonicalization ==
    (out.op \in {"sign", "sending"} /\ out.exc = "") =>
        LET nodes == wire.nodes
            signature == IF out.op = "sign" THEN OwnSignature
                         ELSE Min(XPathAll(nodes, "Signature"))
            algorithm == nodes[Min({i \in XPathAll(nodes, "CanonicalizationMethod") :
                                      nodes[i].alg # ""})].alg
            comments == Contains(algorithm, "#WithComments")
            exclusive == Contains(algorithm, "xml-exc-c14n#")
            signed_info == Min(XPathChildren(nodes, signature, "SignedInfo"))
            Referenced(r) ==
                IF nodes[r].uri = 0
                THEN tostring(Doc(wire.ns, Remove(nodes, signature)), 1)
                ELSE tostring(wire, Min({i \in 1..Len(nodes) :
                                           nodes[i].id = nodes[r].uri}))
        IN  /\ out.op = "sign" => ~exclusive /\ comments
            /\ out.op = "sending" => exclusive /\ ~comments
            /\ \A r \in XPathChildren(nodes, signed_info, "Reference") :
                  \A d \in XPathChildren(nodes, r, "DigestValue") :
                     nodes[d].text.k = "digest" =>
                        nodes[d].text =
                            B64Digest(calculate_digest(Referenced(r), exclusive,
                                                       comments))
            /\ \A v \in XPathChildren(nodes, signature, "SignatureValue") :
                  nodes[v].text =
                      Text("sig", <<>>, origin.key.key,
                           canonicalizate_message(tostring(wire, signed_info),
                                                  exclusive, comments))

\* sending returned the signed form of the envelope that holds a comment
\* in its Body and declares namespaces on its root: the two modes give
\* different canonical forms of the Body.
C19_Witness ==
    /\ out.op = "sending"
    /\ out.exc = ""
    /\ origin.input = EnvelopeCommented
    /\ \E b \in XPathAll(wire.nodes, "Body") :
          /\ calculate_digest(tostring(wire, b), TRUE, FALSE)
                # calculate_digest(tostring(wire, b), TRUE, TRUE)
          /\ calculate_digest(tostring(wire, b), TRUE, FALSE)
                # calculate_digest(tostring(wire, b), FALSE, FALSE)
          /\ \E r \in SignedReferences :
                wire.nodes[r].uri = wire.nodes[b].id /\ DigestFilled(r)


\* C20: the certificate that validate checks for revocation and verifies
\* against.  When the KeyInfo of the Signature that validate reads holds a
\* SecurityTokenReference, it is the text of the BinarySecurityToken whose
\* wsu:Id is the URI of the wsse:Reference in it; otherwise it is the text
\* of the X509Certificate in that KeyInfo.
C20_ResolvedCertificate ==
    (out.op = "validate" /\ out.val.crl.called) =>
        LET nodes == wire.nodes
            signature == FirstSignature(nodes)
            Within(i, tag) == \E k \in Iter(nodes, signature) :
                                 nodes[k].tag = tag /\ i \in Iter(nodes, k)
            reference == {i \in XPathAll(nodes, "wsse:Reference") :
                            /\ Within(i, "KeyInfo")
                            /\ Within(i, "SecurityTokenReference")}
            certificate == {i \in XPathAll(nodes, "X509Certificate") :
                              Within(i, "KeyInfo")}
            used == get_certificate(wire).value
        IN  IF reference # {}
            THEN \E b \in XPathAll(nodes, "BinarySecurityToken") :
                    /\ nodes[b].id = nodes[Min(reference)].uri
                    /\ nodes[b].text = used
            ELSE \E c \in certificate : nodes[c].text = used


\* C21: concurrent refreshes of the CRL cache race.  A process that read
\* the cache file while the other process was between open(..., 'wb') and
\* f.write(r), nothing having been written since that open, read an empty
\* file, and load_crl failed on it.
C21_RefreshRace ==
    \A p \in Procs :
        (procs[p].pc = "done" /\ procs[p].during) =>
            /\ procs[p].crl = EmptyBytes
            /\ procs[p].ret = "raise"
            /\ procs[p].exc = "crypto.Error"

\* The interleaving happened on a cache that was stale and held a CRL:
\* process 2 read the truncated file while process 1 was downloading.
C21_Witness ==
    /\ procs[2].pc = "done"
    /\ procs[2].during
    /\ ~procs[2].renew
    /\ procs[2].crl = EmptyBytes
    /\ procs[2].exc = "crypto.Error"
    /\ procs[1].pc = "write"
    /\ procs[1].r.k = "crl"
    /\ now > 0


\* C22: the WS-Security signing step is idempotent across retried calls.
\* When sending was applied once more to the envelope it had returned,
\* with a matching key and certificate, the envelope has as many
\* Timestamps as the original one, the first Signature has a Reference
\* to the current identifier of the Body and one to that of the signed
\* Timestamp, and validate, called on the unchanged result with a fresh
\* CRL cache that does not revoke the certificate, returns True.
C22_RetryIdempotent ==
    (/\ origin.by = "resending"
     /\ Matching(origin.key, origin.cert)
     /\ origin.tamper = "")
    => LET nodes == wire.nodes
           body == Min(EnvelopeChild(nodes, "Body"))
       IN  /\ Cardinality(XPathAll(nodes, "Timestamp"))
                 = Cardinality(XPathAll(origin.input.nodes, "Timestamp"))
           /\ \E r \in SignedReferences : nodes[r].uri = nodes[body].id
           /\ \E r \in SignedReferences :
                 nodes[r].uri = nodes[SignedTimestamp].id
           /\ (/\ out.op = "validate"
               /\ CacheFreshBefore
               /\ origin.cert.content.n \notin out.pre.content.revoked)
              => out.val.ret = "True"


\* C23: sign changes nothing but adding the signature.  The document that
\* sign returned is the input document, root attributes, namespace
\* declarations and children unchanged and in the same order, followed by
\* one more child of the root, a Signature, whose children are exactly
\* one SignedInfo, one SignatureValue and one KeyInfo; the root has no
\* SignedInfo child.
C23_SignOnlyAppends ==
    (out.op = "sign" /\ out.exc = "") =>
        LET input == origin.input.nodes
            nodes == wire.nodes
            signature == Len(input) + 1
            children == {i \in 1..Len(nodes) : nodes[i].parent = signature}
        IN  /\ wire.ns = origin.input.ns
            /\ Len(nodes) > Len(input)
            /\ \A k \in 1..Len(input) : nodes[k] = input[k]
            /\ nodes[signature].tag = "Signature"
            /\ nodes[signature].parent = 1
            /\ End(nodes, signature) = Len(nodes)
            /\ Cardinality(children) = 3
            /\ \A tag \in {"SignedInfo", "SignatureValue", "KeyInfo"} :
                  Cardinality(XPathChildren(nodes, signature, tag)) = 1
            /\ XPathChildren(nodes, 1, "SignedInfo") = {}

\* sign returned the signed form of a document that was signed before:
\* the earlier Signature is among the children that are kept.
C23_Witness ==
    /\ out.op = "sign"
    /\ out.exc = ""
    /\ origin.input = SignedBefore
    /\ Cardinality(XPathChildren(wire.nodes, 1, "Signature")) = 2
    /\ wire.nodes[OwnSignature].parent = 1


\* C24: request ids are unique.  No RequestId was handed out twice, by
\* the same or by different processes; every RequestId is the date of a
\* day that has begun followed by a counter of at least 1, and the
\* counters handed out for one date are 1, 2, ... without a gap.
C24_RequestIdsUnique ==
    /\ ~ids.dup
    /\ \A obj \in ids.issued :
          /\ obj.value >= 1
          /\ obj.date <= today(now)
          /\ \A v \in 1..obj.value : RequestId(v, obj.date) \in ids.issued


\* C25: a failed CRL refresh is not retried while the cache looks fresh.
\* A call that tried to download with the directory present and got no
\* answer left the cache file existing, empty and modified at the time of
\* the call; and a call that found an existing empty cache file younger
\* than 24 hours did not download, whether or not the endpoint answered,
\* read that file, left it as it was, and failed on load_crl.
C25_FailedRefreshSticks ==
    out.op = "check_revocation_status" =>
        /\ (out.pre.dir = "present" /\ out.crl.download /\ ~out.netUp) =>
              /\ fs.exists
              /\ fs.content = EmptyBytes
              /\ fs.mtime = out.at
        /\ (/\ out.pre.exists
            /\ out.pre.content = EmptyBytes
            /\ days(out.at - out.pre.mtime) = 0) =>
              /\ ~out.crl.download
              /\ out.crl.read
              /\ fs = out.pre
              /\ out.crl.ret = "raise"
              /\ out.crl.exc = "crypto.Error"

\* Time has passed since the failed refresh and the endpoint answers
\* again, yet the call read the empty file left by the failed refresh.
C25_Witness ==
    /\ out.op = "check_revocation_status"
    /\ out.pre.exists
    /\ out.pre.content = EmptyBytes
    /\ out.at > out.pre.mtime
    /\ out.netUp
    /\ ~out.crl.download
    /\ out.crl.exc = "crypto.Error"


\* The envelope has no Timestamp in the Security element of its Header
\* (there may be no Security element at all).
LacksTimestamp(envelope) ==
    LET doc == envelope.nodes
        header == FirstChild(doc, 1, "Header")
        security == IF header = 0 THEN 0 ELSE FirstChild(doc, header, "Security")
    IN  /\ envelope.ok
        /\ header # 0
        /\ security = 0 \/ FirstChild(doc, security, "Timestamp") = 0

\* C26: sending cannot sign an envelope without a Timestamp.  When sending
\* was called on an envelope whose Header has no Security element, or
\* whose Security element holds no Timestamp, the call raised (IndexError
\* at TIMESTAMP_XPATH(security)[0] when the certificate file could be
\* read, IOError otherwise) and context.envelope is the envelope handed in.
C26_NoTimestampNoSignature ==
    (out.op = "sending" /\ LacksTimestamp(origin.input)) =>
        /\ out.exc # ""
        /\ origin.cert.state # "missing" => out.exc = "IndexError"
        /\ wire = origin.input
        /\ XPathAll(wire.nodes, "Signature") = {}

\* sending was called, with readable key and certificate, on an envelope
\* whose Security header exists and holds no Timestamp.
C26_Witness ==
    /\ out.op = "sending"
    /\ origin.input = EnvelopeBare
    /\ origin.cert.state = "ok"
    /\ origin.key.state = "ok"
    /\ out.exc = "IndexError"


\* w is the part of t before its first '.' (all of t when it has none)
\* followed by 'Z'.
Rewritten(t, w) ==
    \E n \in 0..Len(t) :
        /\ \A i \in 1..n : t[i] # "."
        /\ n = Len(t) \/ t[n + 1] = "."
        /\ w = SubSeq(t, 1, n) \o << "Z" >>

\* The text of the first element named tag of a document.
FirstText(doc, tag) == doc.nodes[Min(XPathAll(doc.nodes, tag))].text.s

\* C27: the Created/Expires rewrite maps t to the part of t before its
\* first '.' followed by 'Z', and is neither the identity on a
\* whole-second value nor idempotent.  After a successful sending the
\* Created and Expires of the first Timestamp are the rewrite of those
\* handed in and differ from them, a value that ended in 'Z' now ending in
\* 'ZZ'; after sending was applied again to its own result they are the
\* rewrite of the rewrite, which differs from the rewrite.
C27_RewriteNotIdempotent ==
    \A tag \in {"Created", "Expires"} :
        /\ (out.op = "sending" /\ out.exc = "") =>
              LET t == FirstText(origin.input, tag)
                  w == FirstText(wire, tag)
              IN  /\ Rewritten(t, w)
                  /\ w # t
                  /\ ((\A i \in 1..Len(t) : t[i] # ".") /\ t[Len(t)] = "Z") =>
                        /\ Len(w) = Len(t) + 1
                        /\ w[Len(w)] = "Z" /\ w[Len(w) - 1] = "Z"
        /\ (out.op = "resending" /\ out.exc = "") =>
              LET t == FirstText(origin.input, tag)
                  w == FirstText(wire, tag)
              IN  \E n \in 0..Len(t) :
                     LET once == SubSeq(t, 1, n) \o << "Z" >>
                     IN  /\ Rewritten(t, once)
                         /\ Rewritten(once, w)
                         /\ w # once

\* An envelope whose Created was "TZ" went through sending twice and now
\* carries "TZZZ".
C27_Witness ==
    /\ out.op = "resending"
    /\ out.exc = ""
    /\ FirstText(origin.input, "Created") = << "T", "Z" >>
    /\ FirstText(wire, "Created") = << "T", "Z", "Z", "Z" >>


\* The DigestValue elements of the first Signature whose parent carries a
\* '#id' URI that names no element of the document, or more than one.
Unresolvable(doc) ==
    LET nodes == doc.nodes
        sig == FirstSignature(nodes)
    IN  IF ~doc.ok \/ sig = 0 THEN {}
        ELSE {d \in Iter(nodes, sig) :
                /\ nodes[d].tag = "DigestValue"
                /\ nodes[nodes[d].parent].uri > 0
                /\ Cardinality({i \in 1..Len(nodes) :
                                  nodes[i].id = nodes[nodes[d].parent].uri}) # 1}

\* C28: an unresolvable reference is rejected.  When the first Signature
\* holds a Reference whose non-empty URI names no element, or more than
\* one, validate returns False, whatever that Reference's DigestValue is.
C28_UnresolvableRejected ==
    (out.op = "validate" /\ Unresolvable(wire) # {}) => out.val.ret = "False"


\* The first Signature of the document has no DigestValue descendant.
NoReference(doc) ==
    /\ doc.ok
    /\ FirstSignature(doc.nodes) # 0
    /\ DigestValueNodes(doc.nodes, FirstSignature(doc.nodes)) = <<>>

\* The SignatureValue of the first Signature is a signature, by the key of
\* the certificate the document carries, of the canonical form of its
\* SignedInfo under the declared canonicalization.
VerifiesOverSignedInfo(doc) ==
    LET nodes == doc.nodes
        sig == FirstSignature(nodes)
        sis == {i \in Iter(nodes, sig) : nodes[i].tag = "SignedInfo"}
        svs == {i \in Iter(nodes, sig) : nodes[i].tag = "SignatureValue"}
        algorithm == {i \in XPathAll(nodes, "CanonicalizationMethod") :
                        nodes[i].alg # ""}
        certificate == get_certificate(doc)
    IN  /\ sis # {} /\ svs # {} /\ algorithm # {}
        /\ certificate.exc = ""
        /\ certificate.value.k = "cert"
        /\ verify(certificate.value, nodes[Max(svs)].text,
                  canonicalizate_message(
                    tostring(doc, Max(sis)),
                    Contains(nodes[Min(algorithm)].alg, "xml-exc-c14n#"),
                    Contains(nodes[Min(algorithm)].alg, "#WithComments")))

\* check_revocation_status, called at the time and on the cache file of
\* the last call with the certificate the document carries, does not find
\* the certificate revoked.
NotRevoked(doc) ==
    /\ get_certificate(doc).exc = ""
    /\ check_revocation_status(get_certificate(doc).value, out.pre, out.at,
                               out.netUp, bankCrl).ret = "False"

\* C29: validate compares only the digests of the References of the first
\* Signature, one per distinct URI, the last DigestValue of a URI being
\* the one compared.  A document whose Signature has no Reference never
\* ends at the digest step, and is accepted whenever the revocation check
\* returns False and its SignatureValue verifies over its SignedInfo,
\* whatever was changed outside the Signature; and a document with two
\* DigestValues under one URI, the first wrong and the last right, is
\* accepted under the same conditions.
C29_NoReferenceVacuous ==
    out.op = "validate" =>
        /\ NoReference(wire) =>
              /\ out.val.step # "digest"
              /\ (NotRevoked(wire) /\ VerifiesOverSignedInfo(wire)) =>
                    out.val.ret = "True"
        /\ (wire = ResponseTwoDigests /\ NotRevoked(wire)) =>
              out.val.ret = "True"

\* The text of Data, outside the Signature, of the document signed without
\* a Reference was changed, and validate returned True.
C29_Witness ==
    /\ out.op = "validate"
    /\ origin.input = ResponseNoReference
    /\ origin.tamper = "text"
    /\ wire.nodes[origin.node].tag = "Data"
    /\ NoReference(wire)
    /\ out.val.ret = "True"


\* The children of the rendered document that are named tag.
Children(doc, tag) == {i \in 1..Len(doc) : doc[i].tag = tag}

\* C30: str() of a C2B message that has a group header and at least one
\* payment, the schema file being readable, yields a document with
\* exactly one GrpHdr, whose NbOfTxs is the number of transactions of the
\* message's payments, and one PmtInf per payment of the message, however
\* many calls of str() came before in the process.
C30_OneHeaderPerRendering ==
    (/\ c2b.obj # 0
     /\ c2b.schema
     /\ c2b.self.header
     /\ c2b.self.payments # <<>>)
    => /\ c2b.ret.exc = ""
       /\ Cardinality(Children(c2b.ret.doc, "GrpHdr")) = 1
       /\ \A i \in Children(c2b.ret.doc, "GrpHdr") :
             c2b.ret.doc[i].n = nb_of_txs(c2b.self.payments)
       /\ Cardinality(Children(c2b.ret.doc, "PmtInf")) = Len(c2b.self.payments)

====
